---- MODULE Spec2Model ----
(***************************************************************************)
(* A model of megathreadmanager.py: the run loop (run_manage), the sync    *)
(* engine (sync_all, sync_one, process_source_endpoint,                    *)
(* process_target_endpoint), the thread lifecycle engine (manage_threads,  *)
(* manage_thread, create_new_thread) and the dynamic-state store           *)
(* (render_dynamic_config, load_dynamic_config, write_config).             *)
(*                                                                         *)
(* Data representation.  A Python dict is a TLA+ function whose domain is  *)
(* the dict's key set, so {**a, **b} is Merge(a, b) and a missing key is   *)
(* k \notin DOMAIN d.  A Python str that the code takes apart is a         *)
(* sequence of one-character strings.  A timestamp is a day number counted *)
(* from 2023-01-01 (day 0); anything below a day is not represented.       *)
(* A revision date is a logical clock per page: every edit makes it        *)
(* strictly newer.                                                         *)
(***************************************************************************)
EXTENDS Integers, Sequences, FiniteSets, TLC

(***************************************************************************)
(* Bounds of the model.                                                    *)
(***************************************************************************)
\* Runs of run_manage in one behaviour.
MaxRuns == 2
\* Days the clock may advance in one behaviour of Spec.
MaxTicks == 1
\* Edits by people (not by the engine) to source pages in one behaviour.
MaxUserEdits == 1
\* Failures of external calls in one behaviour.
MaxFailures == 1
\* Days after 2023-12-31 that the dates of SpecDecide range over.
MaxDay == 64
\* Largest interval multiplier of SpecDecide.
MaxN == 2

(***************************************************************************)
(* Python dict and str helpers.                                            *)
(***************************************************************************)
\* {**a, **b}
Merge(a, b) ==
  [k \in (DOMAIN a) \cup (DOMAIN b) |-> IF k \in DOMAIN b THEN b[k] ELSE a[k]]

\* d.get(k, default)
Get(d, k, default) == IF k \in DOMAIN d THEN d[k] ELSE default

\* {}
EmptyDict == <<>>

\* d with d[k] = v assigned (the key may be new)
Put(d, k, v) == [x \in (DOMAIN d) \cup {k} |-> IF x = k THEN v ELSE d[x]]

\* str.rstrip(ch) for a one-character ch
RECURSIVE RStrip(_, _)
RStrip(s, ch) ==
  IF Len(s) > 0 /\ s[Len(s)] = ch THEN RStrip(SubSeq(s, 1, Len(s) - 1), ch) ELSE s

\* s[-2:]
LastTwo(s) == IF Len(s) <= 2 THEN s ELSE SubSeq(s, Len(s) - 1, Len(s))

\* s[:-2]
DropLastTwo(s) == IF Len(s) <= 2 THEN <<>> ELSE SubSeq(s, 1, Len(s) - 2)

(***************************************************************************)
(* The calendar: datetime.datetime.fromtimestamp, the datetime fields read *)
(* by getattr, and datetime + dateutil.relativedelta.relativedelta.        *)
(***************************************************************************)
EpochYear == 2023

IsLeap(y) == (y % 4 = 0 /\ y % 100 # 0) \/ y % 400 = 0

DaysInMonth(y, m) ==
  IF m = 2 THEN (IF IsLeap(y) THEN 29 ELSE 28)
  ELSE IF m \in {4, 6, 9, 11} THEN 30 ELSE 31

\* The date that lies rest days after the first of month m of year y.
RECURSIVE DateFrom(_, _, _)
DateFrom(y, m, rest) ==
  IF rest < DaysInMonth(y, m)
  THEN [year |-> y, month |-> m, day |-> rest + 1]
  ELSE DateFrom(IF m = 12 THEN y + 1 ELSE y, IF m = 12 THEN 1 ELSE m + 1,
                rest - DaysInMonth(y, m))

\* datetime.datetime.fromtimestamp(ts, tz=utc), to the day
FromTimestamp(ts) == DateFrom(EpochYear, 1, ts)

\* The days from the first of January of EpochYear to the first of month m of year y.
RECURSIVE DaysBefore(_, _)
DaysBefore(y, m) ==
  IF y = EpochYear /\ m = 1 THEN 0
  ELSE IF m = 1 THEN DaysBefore(y - 1, 12) + 31
  ELSE DaysBefore(y, m - 1) + DaysInMonth(y, m - 1)

\* The day number of a date (datetime comparison is comparison of these).
Ordinal(d) == DaysBefore(d.year, d.month) + d.day - 1

\* dt + relativedelta(**{unit + "s": n}): years and months move the calendar
\* fields and clamp the day to the month's length, weeks and days add days
\* (unit is one relativedelta knows: HasDeltaUnit).
RelativeAdd(dt, unit, n) ==
  IF unit = <<"y", "e", "a", "r">> THEN
    [year |-> dt.year + n, month |-> dt.month,
     day |-> IF dt.day > DaysInMonth(dt.year + n, dt.month)
             THEN DaysInMonth(dt.year + n, dt.month) ELSE dt.day]
  ELSE IF unit = <<"m", "o", "n", "t", "h">> THEN
    LET total == (dt.month - 1) + n
        y == dt.year + (total \div 12)
        m == (total % 12) + 1
    IN [year |-> y, month |-> m,
        day |-> IF dt.day > DaysInMonth(y, m) THEN DaysInMonth(y, m) ELSE dt.day]
  ELSE IF unit = <<"w", "e", "e", "k">> THEN FromTimestamp(Ordinal(dt) + 7 * n)
  ELSE FromTimestamp(Ordinal(dt) + n)

\* DateField comparing whole dates instead of the field the unit names.
OrdinalField(dt, unit) == Ordinal(dt)

\* getattr(dt, unit): a datetime has the fields year, month and day (and
\* fields below a day); any other name raises AttributeError.
DateField(dt, unit) ==
  IF unit = <<"y", "e", "a", "r">> THEN dt.year
  ELSE IF unit = <<"m", "o", "n", "t", "h">> THEN dt.month
  ELSE IF unit = <<"d", "a", "y">> THEN dt.day
  ELSE -1

HasDateField(unit) ==
  unit \in {<<"y", "e", "a", "r">>, <<"m", "o", "n", "t", "h">>, <<"d", "a", "y">>}

HasDeltaUnit(unit) ==
  unit \in {<<"y", "e", "a", "r">>, <<"m", "o", "n", "t", "h">>,
            <<"w", "e", "e", "k">>, <<"d", "a", "y">>}

(***************************************************************************)
(* process_raw_interval.  raw_interval.split() is given as interval_split: *)
(* <<unit>> or <<n, unit>>, the unit a string and n the integer int()      *)
(* reads.  The result is <<interval_unit, interval_n>>; an optional        *)
(* integer is <<>> for None and <<n>> for n.                               *)
(***************************************************************************)
NoneInt == <<>>

process_raw_interval(interval_split) ==
  LET unit0 == interval_split[Len(interval_split)]
      n0 == IF Len(interval_split) = 1 THEN NoneInt ELSE <<interval_split[1]>>
      unit1 == RStrip(unit0, "s")
      unit2 == IF LastTwo(unit1) = <<"l", "y">> THEN DropLastTwo(unit1) ELSE unit1
      \* "not interval_n": None and 0 are both falsy
      n1 == IF unit2 = <<"w", "e", "e", "k">> /\ (n0 = NoneInt \/ n0 = <<0>>)
            THEN <<1>> ELSE n0
  IN <<unit2, n1>>

(***************************************************************************)
(* The rotation decision of manage_thread in HAS_THREAD (lines 750-766):   *)
(* "True", "False", or the exception getattr or relativedelta raises for a *)
(* unit it does not know.                                                  *)
(***************************************************************************)
should_post_new_thread(interval_split, created_utc, now_utc) ==
  LET parsed == process_raw_interval(interval_split)
      interval_unit == parsed[1]
      interval_n == parsed[2]
      last_post_timestamp == FromTimestamp(created_utc)
      current_datetime == FromTimestamp(now_utc)
  IN IF interval_n = NoneInt
     THEN IF ~HasDateField(interval_unit) THEN "AttributeError"
          ELSE IF DateField(last_post_timestamp, interval_unit)
                    # DateField(current_datetime, interval_unit)
               THEN "True" ELSE "False"
     ELSE IF ~HasDeltaUnit(interval_unit) THEN "TypeError"
          ELSE IF Ordinal(current_datetime)
                    > Ordinal(RelativeAdd(last_post_timestamp, interval_unit,
                                          interval_n[1]))
               THEN "True" ELSE "False"

(***************************************************************************)
(* Text.  A str is a sequence of one-character strings; the value False in *)
(* a place that otherwise holds a str is the one-element sequence          *)
(* <<"False">>, which no str equals.                                       *)
(***************************************************************************)
FalseStr == <<"False">>

\* s[i:].startswith(t), positions counted from 1
StartsAt(s, i, t) ==
  /\ i >= 1
  /\ i + Len(t) - 1 <= Len(s)
  /\ \A k \in 1..Len(t) : s[i + k - 1] = t[k]

\* str.replace(old, new) from position i on: every non-overlapping occurrence,
\* left to right; an empty old matches before every character and at the end.
RECURSIVE ReplaceFrom(_, _, _, _)
ReplaceFrom(s, i, old, new) ==
  IF old = <<>>
  THEN IF i > Len(s) THEN new ELSE new \o <<s[i]>> \o ReplaceFrom(s, i + 1, old, new)
  ELSE IF i > Len(s) THEN <<>>
  ELSE IF StartsAt(s, i, old) THEN new \o ReplaceFrom(s, i + Len(old), old, new)
  ELSE <<s[i]>> \o ReplaceFrom(s, i + 1, old, new)

\* text.replace(old, new)
StrReplace(s, old, new) == ReplaceFrom(s, 1, old, new)

\* re.IGNORECASE on the letters of the model that have an upper case.
Lower(c) == IF c = "P" THEN "p" ELSE IF c = "S" THEN "s" ELSE c

\* s[i:] starts with t, letters compared without regard to case
StartsAtIgnoreCase(s, i, t) ==
  /\ i >= 1
  /\ i + Len(t) - 1 <= Len(s)
  /\ \A k \in 1..Len(t) : Lower(s[i + k - 1]) = Lower(t[k])

\* re.sub(re.escape(old), new, s, flags=re.IGNORECASE) from position i on,
\* for a non-empty old: every non-overlapping occurrence, left to right.
RECURSIVE ReSubFrom(_, _, _, _)
ReSubFrom(s, i, old, new) ==
  IF i > Len(s) THEN <<>>
  ELSE IF StartsAtIgnoreCase(s, i, old) THEN new \o ReSubFrom(s, i + Len(old), old, new)
  ELSE <<s[i]>> \o ReSubFrom(s, i + 1, old, new)

ReSubIgnoreCase(s, old, new) == ReSubFrom(s, 1, old, new)

\* replace_patterns folding from the last item of the mapping to the first.
RECURSIVE replace_patterns_reversed(_, _)
replace_patterns_reversed(text, patterns) ==
  IF patterns = <<>> THEN text
  ELSE replace_patterns_reversed(
         StrReplace(text, patterns[Len(patterns)][1], patterns[Len(patterns)][2]),
         SubSeq(patterns, 1, Len(patterns) - 1))

\* replace_patterns: patterns is the mapping's items in mapping order
RECURSIVE replace_patterns(_, _)
replace_patterns(text, patterns) ==
  IF patterns = <<>> THEN text
  ELSE replace_patterns(StrReplace(text, patterns[1][1], patterns[1][2]),
                        Tail(patterns))

\* startend_to_pattern_md wraps a marker text as "[](/# text)"; the model
\* writes the wrapper's opening "[](/# " as the one character "[".
MdMarker(text) == <<"[">> \o text \o <<")">>

\* re.search of startend_to_pattern(start, end), the pattern
\* (?<=start)(\s|\S)*(?=end): the leftmost position that follows an
\* occurrence of start and has an occurrence of end at or after it, and from
\* there the longest run of characters that an occurrence of end follows.
\* <<lo, hi>> (the match is s[lo..hi], empty when hi = lo - 1) or <<>> (None).
RegexSearch(s, start, end) ==
  LET starts == {i \in 1..(Len(s) + 1) :
                   /\ StartsAt(s, i - Len(start), start)
                   /\ \E j \in i..(Len(s) + 1) : StartsAt(s, j, end)}
  IN IF starts = {} THEN <<>>
     ELSE LET lo == CHOOSE i \in starts : \A k \in starts : i <= k
              ends == {j \in lo..(Len(s) + 1) : StartsAt(s, j, end)}
              hi == CHOOSE j \in ends : \A k \in ends : j >= k
          IN <<lo, hi - 1>>

\* search_startend: "False" (matching is off), "None" (no match) or "Match"
search_startend(source_text, pattern, start, end) ==
  IF pattern = FalseStr \/ (pattern = <<>> /\ start = <<>> /\ end = <<>>)
  THEN [kind |-> "False", span |-> <<>>]
  ELSE LET m == RegexSearch(source_text, MdMarker(pattern \o start),
                            MdMarker(pattern \o end))
       IN IF m = <<>> THEN [kind |-> "None", span |-> <<>>]
          ELSE [kind |-> "Match", span |-> m]

\* match_obj.group()
MatchGroup(s, m) == SubSeq(s, m.span[1], m.span[2])

\* process_endpoint_text without replace_text (replace_text=None): the
\* region, the whole content when matching is off, FalseStr when not found
ExtractText(content, config) ==
  LET match_obj == search_startend(content, config["pattern"],
                                   config["pattern_start"], config["pattern_end"])
  IN IF match_obj.kind = "False" THEN content
     ELSE IF match_obj.kind = "None" THEN FalseStr
     ELSE MatchGroup(content, match_obj)

\* process_endpoint_text with a replace_text
ReplaceText(content, config, replace_text) ==
  LET match_obj == search_startend(content, config["pattern"],
                                   config["pattern_start"], config["pattern_end"])
  IN IF match_obj.kind = "False" THEN replace_text
     ELSE IF match_obj.kind = "None" THEN FalseStr
     ELSE StrReplace(content, MatchGroup(content, match_obj), replace_text)

(***************************************************************************)
(* The configuration defaults (lines 90-143).  pattern_start " Start" and  *)
(* pattern_end " End" are written "s" and "e"; a mapping whose order the   *)
(* code relies on (replace_patterns, targets) is the sequence of its       *)
(* items; new_thread_interval is held as raw_interval.split() gives it,    *)
(* <<>> for a falsy interval.                                              *)
(***************************************************************************)
DEFAULT_SYNC_ENDPOINT ==
  [description |-> "", enabled |-> TRUE, endpoint_name |-> "",
   endpoint_type |-> "WIKI_PAGE", menu_config |-> EmptyDict,
   pattern |-> FalseStr, pattern_end |-> <<"e">>, pattern_start |-> <<"s">>,
   replace_patterns |-> <<>>]

DEFAULT_SYNC_PAIR ==
  [defaults |-> EmptyDict, description |-> "", enabled |-> TRUE,
   source |-> EmptyDict, targets |-> <<>>]

DEFAULT_MEGATHREAD_CONFIG ==
  [defaults |-> EmptyDict, description |-> "", enabled |-> TRUE,
   initial |-> [thread_number |-> 0, thread_id |-> ""],
   link_update_pages |-> <<>>,
   new_thread_interval |-> << <<"m", "o", "n", "t", "h">> >>,
   new_thread_redirect_op |-> FALSE, new_thread_redirect_sticky |-> FALSE,
   new_thread_redirect_template |-> "redirect",
   pin_thread |-> "top", post_title_template |-> "title",
   source |-> EmptyDict]

\* DYNAMIC_CONFIGS[key]["defaults"]
DynamicDefaults(key) ==
  IF key = "megathread"
  THEN [thread_number |-> 0, thread_id |-> "", source_timestamp |-> 0]
  ELSE [source_timestamp |-> 0]

\* DYNAMIC_CONFIGS[key]["static_config_path"]
StaticConfigPath(key) ==
  IF key = "megathread" THEN <<"megathread", "megathreads">> ELSE <<"sync", "pairs">>

\* The order in which .items() yields the ids of a section: declaration order.
DeclarationOrder == <<"p1", "p2", "m1">>

ItemsInOrder(items) == SelectSeq(DeclarationOrder, LAMBDA id : id \in DOMAIN items)

(***************************************************************************)
(* render_dynamic_config (lines 564-592).                                  *)
(***************************************************************************)
\* RenderSection keeping only the ids of the static config.
RenderSectionCurrent(static_config, dynamic_config_in, key) ==
  LET static_config_items ==
        Get(Get(static_config, StaticConfigPath(key)[1], EmptyDict),
            StaticConfigPath(key)[2], EmptyDict)
  IN [config_id \in DOMAIN static_config_items |->
        Merge(Merge(DynamicDefaults(key),
                    Get(static_config_items[config_id], "initial", EmptyDict)),
              Get(Get(dynamic_config_in, key, EmptyDict), config_id, EmptyDict))]

RenderSection(static_config, dynamic_config_in, key) ==
  LET dynamic_config_section == Get(dynamic_config_in, key, EmptyDict)
      path == StaticConfigPath(key)
      static_config_items ==
        Get(Get(static_config, path[1], EmptyDict), path[2], EmptyDict)
  IN [config_id \in (DOMAIN dynamic_config_section) \cup (DOMAIN static_config_items) |->
        IF config_id \in DOMAIN static_config_items
        THEN Merge(Merge(DynamicDefaults(key),
                         Get(static_config_items[config_id], "initial", EmptyDict)),
                   Get(dynamic_config_section, config_id, EmptyDict))
        ELSE dynamic_config_section[config_id]]

render_dynamic_config(static_config, dynamic_config_in) ==
  Put(Put(dynamic_config_in,
          "megathread", RenderSection(static_config, dynamic_config_in, "megathread")),
      "sync", RenderSection(static_config, dynamic_config_in, "sync"))

(***************************************************************************)
(* The static configurations the model runs.  Each is a config.toml a user *)
(* can write: a sync section (SyncVariants) and a megathread section       *)
(* (MegaVariants) under the global defaults.                               *)
(***************************************************************************)
WikiEndpoint(name) == [endpoint_name |-> name, pattern |-> <<"P">>]

SyncPairs(sv) ==
  IF sv = "fanout" THEN
    \* one source, two targets; a disabled pair that declares no targets
    [p1 |-> [source |-> WikiEndpoint("W1"),
             targets |-> <<WikiEndpoint("W2"), WikiEndpoint("W3")>>],
     p2 |-> [enabled |-> FALSE, source |-> WikiEndpoint("W1")]]
  ELSE IF sv = "chain" THEN
    \* the target of the pair declared second is the source of the first
    [p1 |-> [source |-> WikiEndpoint("W2"), targets |-> <<WikiEndpoint("W3")>>],
     p2 |-> [source |-> WikiEndpoint("W1"), targets |-> <<WikiEndpoint("W2")>>]]
  ELSE IF sv = "menu" THEN
    \* a menu source: no revision date
    [p1 |-> [source |-> [endpoint_type |-> "MENU"],
             targets |-> <<WikiEndpoint("W2")>>],
     p2 |-> [source |-> [enabled |-> FALSE, endpoint_name |-> "W1"],
             targets |-> <<WikiEndpoint("W3")>>]]
  ELSE IF sv = "zero" THEN
    \* an enabled pair that declares no targets
    [p1 |-> [source |-> WikiEndpoint("W1"), targets |-> <<WikiEndpoint("W2")>>],
     p2 |-> [source |-> WikiEndpoint("W1")]]
  ELSE IF sv = "widget" THEN
    \* widget sources (no revision date): the markers of p1 are in the text
    \* of the widget, those of p2 are not
    [p1 |-> [source |-> [endpoint_type |-> "WIDGET", pattern |-> <<"P">>],
             targets |-> <<WikiEndpoint("W2")>>],
     p2 |-> [source |-> [endpoint_type |-> "WIDGET", pattern |-> <<"Q">>],
             targets |-> <<WikiEndpoint("W3")>>]]
  ELSE IF sv = "isolate" THEN
    \* four targets: the second has no markers, the third is disabled; and a
    \* disabled pair that declares no targets
    [p1 |-> [source |-> WikiEndpoint("W1"),
             targets |-> <<WikiEndpoint("W2"), WikiEndpoint("N"),
                           Merge(WikiEndpoint("W3"), [enabled |-> FALSE]),
                           WikiEndpoint("W4")>>],
     p2 |-> [enabled |-> FALSE, source |-> WikiEndpoint("W1")]]
  ELSE IF sv = "shared" THEN
    \* one pair, under the id of the megathread
    [m1 |-> [source |-> WikiEndpoint("W1"), targets |-> <<WikiEndpoint("W2")>>]]
  ELSE EmptyDict

SyncVariants == {"fanout", "chain", "menu", "widget", "zero", "isolate", "none"}

SyncSection(sv) ==
  [enabled |-> sv # "none",
   defaults |-> [pattern_end |-> <<"e">>, pattern_start |-> <<"s">>],
   pairs |-> SyncPairs(sv)]

\* The megathread m1 as declared: mv names what the variant sets.
Megathread(mv) ==
  LET base == [source |-> WikiEndpoint("W1"), link_update_pages |-> <<"L">>]
      target == [target |-> EmptyDict]
  IN IF mv = "top" THEN Merge(base, target)
     ELSE IF mv = "bottom" THEN Merge(Merge(base, target), [pin_thread |-> "bottom"])
     ELSE IF mv = "nopin" THEN
       \* not pinned, a new thread every day, and two link pages
       Merge(Merge(base, target),
             [pin_thread |-> "", new_thread_interval |-> << <<"d", "a", "y">> >>,
              link_update_pages |-> <<"L", "L2">>,
              new_thread_redirect_op |-> TRUE, new_thread_redirect_sticky |-> TRUE])
     ELSE IF mv = "nointerval" THEN
       Merge(Merge(base, target), [new_thread_interval |-> <<>>])
     ELSE IF mv = "seeded" THEN
       \* no interval, and a live thread named by the initial block
       Merge(Merge(base, target),
             [new_thread_interval |-> <<>>,
              initial |-> [thread_number |-> 5, thread_id |-> "b"]])
     ELSE IF mv = "notarget" THEN base
     ELSE Merge(Merge(base, target), [enabled |-> FALSE])

MegaVariants == {"top", "bottom", "nopin", "nointerval", "seeded", "notarget", "disabled"}

MegathreadSection(mv) ==
  [enabled |-> TRUE,
   defaults |-> [new_thread_redirect_template |-> "redirect"],
   megathreads |-> [m1 |-> Megathread(mv)]]

StaticConfig(sv, mv) ==
  [defaults |-> [account |-> "acct", subreddit |-> "sub"],
   sync |-> SyncSection(sv),
   megathread |-> MegathreadSection(mv)]

\* The mapping d without the key k.
Without(d, k) == [x \in (DOMAIN d) \ {k} |-> d[x]]

\* Configurations whose sync or megathread section has no defaults or no
\* enabled key: load_static_config (line 554) fills in whole sections only.
MissingKeyConfigs ==
  LET full == StaticConfig("fanout", "top")
  IN {[full EXCEPT !["sync"] = Without(@, k)] : k \in {"defaults", "enabled"}}
       \cup {[full EXCEPT !["megathread"] = Without(@, k)] :
               k \in {"defaults", "enabled"}}

\* The configurations: every sync variant beside a disabled megathread, every
\* megathread variant alone, one with both sections at work, and those with
\* a key missing in a section.
StaticConfigs ==
  {StaticConfig(sv, "disabled") : sv \in SyncVariants \ {"none"}}
    \cup {StaticConfig("none", mv) : mv \in MegaVariants \ {"disabled"}}
    \cup {StaticConfig("fanout", "top"), StaticConfig("shared", "top")}
    \cup MissingKeyConfigs

(***************************************************************************)
(* The contents of the wiki pages.                                         *)
(***************************************************************************)
\* A source page whose region between the markers of pattern P is <<v>>.
SourceText(v) == <<"[", "P", "s", ")", v, "[", "P", "e", ")">>

\* A page without the markers.
NoMarkerText == <<"n">>

\* The text of the sidebar widget.
WidgetText == SourceText("w")

\* A target page: a region between the markers, and text around them.
TargetText == <<"a", "[", "P", "s", ")", "o", "[", "P", "e", ")", "b">>

\* thread.permalink.strip("/") and thread.shortlink.strip("/")
Permalink(id) == <<"p", id>>

Shortlink(id) == <<"s", id>>

\* A link page: it links to the first megathread, one of the links written
\* in upper case.
LinkPageText ==
  <<"(">> \o Permalink("t1") \o <<")", "(">> \o Shortlink("t1") \o <<")", "(", "P", "t1", ")">>

\* The ids the platform gives to the threads it creates, in order.
ThreadIds == <<"t1", "t2", "t3", "t4", "t5", "t6", "t7", "t8">>

(***************************************************************************)
(* State.                                                                  *)
(***************************************************************************)
VARIABLES
  static,                 \* static_config, as load_static_config returns it
  now,                    \* the clock, a day number
  wiki,                   \* the wiki pages: name -> [content, rev]
  menu,                   \* the data of the subreddit's menu widget
  threads,                \* the submissions: id -> record
  stickies,               \* the pinned threads, slot 1 first
  sticky_cache,           \* the pin listing a stale read returns
  file,                   \* the dynamic config file: [exists, doc]
  dynamic_config,         \* run_manage: the snapshot taken at the start
  dynamic_config_active,  \* run_manage: the working copy
  pc,                     \* the place the run has reached ("idle": no run)
  item,                   \* the index of the item of the section being processed
  section,                \* the section ("sync", "megathread") of the record in use
  config_id,              \* the id of the record in use
  thread_config,          \* manage_threads: the resolved megathread config
  sync_pair,              \* sync_one: the pair being synced
  source_content,         \* sync_one: source_content; create_new_thread: post_text
  target_i,               \* sync_one: the index of the target being processed
  new_thread,             \* create_new_thread: the id of the submitted thread
  sticky_to_keep,         \* create_new_thread: the thread to keep pinned, or ""
  runs, ticks, user_edits, failures,  \* how often the bounded steps were taken
  edit_calls,             \* calls of SyncEndpoint.edit made by sync_one so far
  write_calls,            \* calls of write_config on the dynamic config file so far
  quiet                   \* a run has completed and nothing outside has changed since

vars ==
  <<static, now, wiki, menu, threads, stickies, sticky_cache, file, dynamic_config,
    dynamic_config_active, pc, item, section, config_id, thread_config, sync_pair,
    source_content, target_i, new_thread, sticky_to_keep, runs, ticks, user_edits,
    failures, edit_calls, write_calls, quiet>>

world == <<wiki, menu, threads, stickies, sticky_cache>>

counters == <<runs, ticks, user_edits, failures>>

locals ==
  <<item, section, config_id, thread_config, sync_pair, source_content, target_i,
    new_thread, sticky_to_keep>>

(***************************************************************************)
(* Content values: a str, menu data, or False.                             *)
(***************************************************************************)
StrContent(text) == [kind |-> "str", text |-> text]

MenuContent(data) == [kind |-> "menu", text |-> data]

FalseContent == [kind |-> "False", text |-> <<>>]

(***************************************************************************)
(* The sync endpoints (lines 319-483) over the platform's state.           *)
(***************************************************************************)
\* Whether the platform has the object the endpoint names (reading or
\* editing one it does not have fails).
EndpointExists(config) ==
  IF config["endpoint_type"] = "WIKI_PAGE" THEN config["endpoint_name"] \in DOMAIN wiki
  ELSE IF config["endpoint_type"] = "THREAD" THEN config["endpoint_name"] \in DOMAIN threads
  ELSE TRUE

\* revision_date raises NotImplementedError for a menu and a widget
HasRevisionDate(config) == config["endpoint_type"] \in {"WIKI_PAGE", "THREAD"}

\* revision_date
RevisionDate(config) ==
  IF config["endpoint_type"] = "WIKI_PAGE" THEN wiki[config["endpoint_name"]].rev
  ELSE LET t == threads[config["endpoint_name"]]
       IN IF t.edited # 0 THEN t.edited ELSE t.created

\* content
EndpointContent(config) ==
  IF config["endpoint_type"] = "WIKI_PAGE"
  THEN StrContent(wiki[config["endpoint_name"]].content)
  ELSE IF config["endpoint_type"] = "THREAD"
  THEN StrContent(threads[config["endpoint_name"]].selftext)
  ELSE IF config["endpoint_type"] = "WIDGET"
  THEN StrContent(WidgetText)
  ELSE MenuContent(menu)

\* The wiki after edit(new_content) on a wiki page: a new revision.
WikiEdited(w, name, new_content) ==
  [w EXCEPT ![name] = [content |-> new_content, rev |-> w[name].rev + 1]]

\* The threads after edit(new_content) on a thread.
ThreadEdited(t, id, new_content) ==
  [t EXCEPT ![id].selftext = new_content, ![id].edited = now]

(***************************************************************************)
(* process_source_endpoint (lines 889-920): the record as it leaves it and *)
(* the value it returns.                                                   *)
(***************************************************************************)
\* SourceUpdated with the comparison weakened: an equal revision counts as new.
SourceNotOlder(source_timestamp, stored) == source_timestamp >= stored

SourceUpdated(source_timestamp, stored) == source_timestamp > stored

\* process_source_endpoint taking a source without a revision date as not
\* updated.
process_source_dated(source_config, record) ==
  IF /\ HasRevisionDate(source_config)
     /\ SourceUpdated(RevisionDate(source_config), record["source_timestamp"])
  THEN LET content == EndpointContent(source_config)
           processed == ExtractText(content.text, source_config)
       IN [record |-> [record EXCEPT
                         !["source_timestamp"] = RevisionDate(source_config)],
           content |-> IF processed = FalseStr THEN FalseContent
                       ELSE StrContent(replace_patterns(
                              processed, source_config["replace_patterns"]))]
  ELSE [record |-> record, content |-> FalseContent]

\* process_source_endpoint giving the whole content of the source when its
\* markers are not found.
process_source_unmatched(source_config, record) ==
  LET supported == HasRevisionDate(source_config)
      source_timestamp == RevisionDate(source_config)
  IN IF supported /\ ~SourceUpdated(source_timestamp, record["source_timestamp"])
     THEN [record |-> record, content |-> FalseContent]
     ELSE [record |-> IF supported
                      THEN [record EXCEPT !["source_timestamp"] = source_timestamp]
                      ELSE record,
           content |-> EndpointContent(source_config)]

\* process_source_endpoint recording the revision only once the markers of
\* the source were found.
process_source_stamp_late(source_config, record) ==
  LET supported == HasRevisionDate(source_config)
      source_timestamp == RevisionDate(source_config)
  IN IF supported /\ ~SourceUpdated(source_timestamp, record["source_timestamp"])
     THEN [record |-> record, content |-> FalseContent]
     ELSE
       LET record2 == IF supported
                      THEN [record EXCEPT !["source_timestamp"] = source_timestamp]
                      ELSE record
           content == EndpointContent(source_config)
       IN IF content.kind = "str"
          THEN LET processed == ExtractText(content.text, source_config)
               IN IF processed = FalseStr
                  THEN [record |-> record, content |-> FalseContent]
                  ELSE [record |-> record2,
                        content |-> StrContent(
                          replace_patterns(processed, source_config["replace_patterns"]))]
          ELSE [record |-> record2, content |-> content]

process_source_endpoint(source_config, record) ==
  LET supported == HasRevisionDate(source_config)
      source_timestamp == RevisionDate(source_config)
  IN IF supported /\ ~SourceUpdated(source_timestamp, record["source_timestamp"])
     THEN [record |-> record, content |-> FalseContent]
     ELSE
       LET record2 == IF supported
                      THEN [record EXCEPT !["source_timestamp"] = source_timestamp]
                      ELSE record
           content == EndpointContent(source_config)
       IN IF content.kind = "str"
          THEN LET processed == ExtractText(content.text, source_config)
               IN IF processed = FalseStr
                  THEN [record |-> record2, content |-> FalseContent]
                  ELSE [record |-> record2,
                        content |-> StrContent(
                          replace_patterns(processed, source_config["replace_patterns"]))]
          ELSE [record |-> record2, content |-> content]

(***************************************************************************)
(* process_target_endpoint (lines 923-947) for a wiki page or thread       *)
(* target (no configuration of the model has a menu target).               *)
(***************************************************************************)
process_target_endpoint(target_config, src) ==
  LET target_content == EndpointContent(target_config)
  IN IF src.kind = "str" /\ target_content.kind = "str"
     THEN LET propagated == replace_patterns(src.text, target_config["replace_patterns"])
              processed == ReplaceText(target_content.text, target_config, propagated)
          IN IF processed = FalseStr THEN FalseContent ELSE StrContent(processed)
     ELSE target_content

(***************************************************************************)
(* Resolving the settings of one item (lines 800-810 and 997-1004).        *)
(***************************************************************************)
ResolveSyncPair(static_config, sync_pair_id) ==
  LET defaults == Merge(static_config["defaults"], static_config["sync"]["defaults"])
      pair == Merge(DEFAULT_SYNC_PAIR, static_config["sync"]["pairs"][sync_pair_id])
  IN [pair EXCEPT !["defaults"] = Merge(defaults, pair["defaults"])]

ResolveThreadConfig(static_config, thread_id) ==
  LET defaults == Merge(static_config["defaults"], static_config["megathread"]["defaults"])
      config1 == Merge(DEFAULT_MEGATHREAD_CONFIG,
                       static_config["megathread"]["megathreads"][thread_id])
      config2 == [config1 EXCEPT !["defaults"] = Merge(defaults, config1["defaults"])]
  IN Merge(config2["defaults"], config2)

\* sync_one, lines 957-958 and 974
EndpointDefaults(pair) == Merge(DEFAULT_SYNC_ENDPOINT, pair["defaults"])

SourceConfig(pair) == Merge(EndpointDefaults(pair), pair["source"])

\* TargetConfig with the target's enabled setting overridden: always enabled.
TargetConfigEnabled(pair, i) ==
  Merge(Merge(EndpointDefaults(pair), pair["targets"][i]), [enabled |-> TRUE])

TargetConfig(pair, i) == Merge(EndpointDefaults(pair), pair["targets"][i])

\* create_new_thread, lines 651-655
ThreadSourceConfig(config) ==
  Merge(Merge(DEFAULT_SYNC_ENDPOINT, config["defaults"]), config["source"])

\* manage_thread, lines 777-786: the pair whose one target is the live thread
MegathreadSyncPair(config, record) ==
  LET picked == [k \in (DOMAIN config) \cap {"defaults", "source"} |-> config[k]]
      target == [description |-> "Megathread",
                 endpoint_name |-> record["thread_id"],
                 endpoint_type |-> "THREAD"]
  IN [Merge(DEFAULT_SYNC_PAIR, picked) EXCEPT
        !["targets"] = <<Merge(target, config["target"])>>]

\* ManageThreadDecision without the test of the interval: always post.
AlwaysPost(config, record, all_threads, current_time) == "True"

\* manage_thread, lines 746-770: should_post_new_thread, or the exception
\* raised while deciding ("NotFound": the platform has no such thread).
ManageThreadDecision(config, record, all_threads, current_time) ==
  IF config["new_thread_interval"] # <<>>
  THEN IF record["thread_id"] # ""
       THEN IF record["thread_id"] \in DOMAIN all_threads
            THEN should_post_new_thread(config["new_thread_interval"],
                                        all_threads[record["thread_id"]].created,
                                        current_time)
            ELSE "NotFound"
       ELSE "True"
  ELSE "False"

(***************************************************************************)
(* The pins of the subreddit: submission.mod.sticky and subreddit.sticky.  *)
(***************************************************************************)
\* sticky(state=False)
Unstickied(st, id) == SelectSeq(st, LAMBDA x : x # id)

\* sticky(state=True, bottom=bottom): slot 1 when bottom is false, replacing
\* the thread pinned there; else the bottom-most slot, replacing the thread
\* pinned there when both slots are taken.  A pinned thread stays where it is.
Stickied(st, id, bottom) ==
  IF \E i \in 1..Len(st) : st[i] = id THEN st
  ELSE IF bottom THEN (IF Len(st) < 2 THEN Append(st, id) ELSE <<st[1], id>>)
  ELSE IF st = <<>> THEN <<id>>
  ELSE <<id>> \o Tail(st)

\* subreddit.sticky(number=n).id in the listing view, "" for NotFound
StickyAt(view, n) == IF n <= Len(view) THEN view[n] ELSE ""

\* StickyToKeep without the second lookup: always the thread in slot 1.
StickyFirst(view, thread_id) == StickyAt(view, 1)

\* Lines 686-691: the thread to keep pinned ("" for None), read from view.
StickyToKeep(view, thread_id) ==
  IF StickyAt(view, 1) = "" THEN ""
  ELSE IF thread_id # "" /\ StickyAt(view, 1) = thread_id THEN StickyAt(view, 2)
  ELSE StickyAt(view, 1)

(***************************************************************************)
(* load_dynamic_config (lines 595-610): the file and the config it returns.*)
(***************************************************************************)
load_dynamic_config(f, static_config) ==
  IF ~f.exists
  THEN LET rendered == render_dynamic_config(static_config, EmptyDict)
       IN [file |-> [exists |-> TRUE, doc |-> rendered], config |-> rendered,
           written |-> 1]
  ELSE [file |-> f, config |-> render_dynamic_config(static_config, f.doc),
        written |-> 0]

(***************************************************************************)
(* Init: a fresh installation.  The static config is one of StaticConfigs; *)
(* the dynamic config file does not exist yet; the subreddit has its pages *)
(* and one thread, b, of somebody else; it is 2023-01-31.               *)
(***************************************************************************)
NoLocals ==
  /\ item = 0 /\ section = "" /\ config_id = ""
  /\ thread_config = EmptyDict /\ sync_pair = EmptyDict
  /\ source_content = FalseContent /\ target_i = 0
  /\ new_thread = "" /\ sticky_to_keep = ""

\* Whether the configuration has a megathread that pins its threads.
PinsThreads(static_config) ==
  /\ "defaults" \in DOMAIN static_config["megathread"]
  /\ \E id \in DOMAIN static_config["megathread"]["megathreads"] :
       LET config == ResolveThreadConfig(static_config, id)
       IN config["enabled"] /\ config["pin_thread"] # ""

InitWorld ==
  /\ wiki = [W1 |-> [content |-> SourceText("x"), rev |-> 1],
             W2 |-> [content |-> TargetText, rev |-> 1],
             W3 |-> [content |-> TargetText, rev |-> 1],
             W4 |-> [content |-> TargetText, rev |-> 1],
             N |-> [content |-> NoMarkerText, rev |-> 1],
             L |-> [content |-> LinkPageText, rev |-> 1],
             L2 |-> [content |-> LinkPageText, rev |-> 1]]
  /\ menu = <<"m">>
  /\ threads = [b |-> [number |-> 0, selftext |-> <<"o">>, created |-> 0, edited |-> 0,
                       approved |-> TRUE, redirected |-> FALSE]]
  /\ stickies \in {<<"b">>} \cup (IF PinsThreads(static) THEN {<<>>} ELSE {})
  /\ sticky_cache = stickies

Init ==
  /\ static \in StaticConfigs
  /\ now = Ordinal([year |-> 2023, month |-> 1, day |-> 31])
  /\ InitWorld
  /\ file = [exists |-> FALSE, doc |-> EmptyDict]
  /\ dynamic_config = EmptyDict /\ dynamic_config_active = EmptyDict
  /\ pc = "idle"
  /\ NoLocals
  /\ runs = 0 /\ ticks = 0 /\ user_edits = 0 /\ failures = 0
  /\ edit_calls = 0 /\ write_calls = 0
  /\ quiet = FALSE

(***************************************************************************)
(* How a step ends.                                                        *)
(***************************************************************************)
ClearLocals ==
  /\ section' = "" /\ config_id' = ""
  /\ thread_config' = EmptyDict /\ sync_pair' = EmptyDict
  /\ source_content' = FalseContent /\ target_i' = 0
  /\ new_thread' = "" /\ sticky_to_keep' = ""

\* Aborted with the working copy written to the dynamic config file first.
AbortedSaving ==
  /\ pc' = "idle" /\ item' = 0 /\ ClearLocals
  /\ file' = [exists |-> TRUE, doc |-> dynamic_config_active]
  /\ dynamic_config' = EmptyDict /\ dynamic_config_active' = EmptyDict
  /\ quiet' = FALSE
  /\ UNCHANGED <<static, now, world, edit_calls, write_calls>>

\* An exception leaves run_manage: the run is over, its working copy is lost
\* and the dynamic config file is not written.
Aborted ==
  /\ pc' = "idle" /\ item' = 0 /\ ClearLocals
  /\ dynamic_config' = EmptyDict /\ dynamic_config_active' = EmptyDict
  /\ quiet' = FALSE
  /\ UNCHANGED <<static, now, world, file, edit_calls, write_calls>>

Raised == Aborted /\ UNCHANGED counters

\* sync_one or manage_thread returns to the loop that called it.
Returned ==
  /\ pc' = (IF section = "sync" THEN "sync_all" ELSE "manage_threads")
  /\ item' = item + 1 /\ ClearLocals

Record == dynamic_config_active[section][config_id]

\* WithRecord writing the record under the id in every section.
WithRecordById(record) ==
  [s \in DOMAIN dynamic_config_active |->
     [id \in DOMAIN dynamic_config_active[s] |->
        IF id = config_id THEN record ELSE dynamic_config_active[s][id]]]

WithRecord(record) == [dynamic_config_active EXCEPT ![section][config_id] = record]

(***************************************************************************)
(* run_manage (lines 1025-1045).                                           *)
(***************************************************************************)
\* Lines 1032-1035: load the configs and copy the dynamic config.
RunStart ==
  /\ pc = "idle" /\ runs < MaxRuns
  /\ LET loaded == load_dynamic_config(file, static)
     IN /\ file' = loaded.file
        /\ write_calls' = write_calls + loaded.written
        /\ dynamic_config' = loaded.config
        /\ dynamic_config_active' = loaded.config
  /\ runs' = runs + 1
  /\ pc' = "sync_all" /\ item' = 1
  /\ UNCHANGED <<static, now, world, section, config_id, thread_config, sync_pair,
                 source_content, target_i, new_thread, sticky_to_keep, ticks,
                 user_edits, failures, edit_calls, quiet>>

\* ConfigChanged without the comparison: the file is written at every end of run.
AlwaysChanged(active, snapshot) == TRUE

\* ConfigChanged without the comparison: the file is never written at the end.
NeverChanged(active, snapshot) == FALSE

\* Lines 1043-1045: write out the dynamic config if it changed.
ConfigChanged(active, snapshot) == active # snapshot

RunFinish ==
  /\ pc = "finish"
  /\ IF ConfigChanged(dynamic_config_active, dynamic_config)
     THEN /\ file' = [exists |-> TRUE, doc |-> dynamic_config_active]
          /\ write_calls' = write_calls + 1
     ELSE UNCHANGED <<file, write_calls>>
  /\ pc' = "idle" /\ item' = 0 /\ ClearLocals
  /\ dynamic_config' = EmptyDict /\ dynamic_config_active' = EmptyDict
  /\ quiet' = TRUE
  /\ UNCHANGED <<static, now, world, counters, edit_calls>>

(***************************************************************************)
(* sync_all (lines 992-1010) and sync_one (lines 950-989).                 *)
(***************************************************************************)
\* static_config[key]["enabled"] (lines 1037, 1039) or, in an enabled
\* section, static_config[key]["defaults"] (lines 999, 802) raises KeyError.
SectionKeyMissing(static_config, key) ==
  \/ "enabled" \notin DOMAIN static_config[key]
  \/ static_config[key]["enabled"] /\ "defaults" \notin DOMAIN static_config[key]

sync_all ==
  /\ pc = "sync_all"
  /\ IF SectionKeyMissing(static, "sync")
     THEN Raised
     ELSE /\ LET ids == ItemsInOrder(static["sync"]["pairs"])
             IN IF ~static["sync"]["enabled"] \/ item > Len(ids)
                THEN /\ pc' = "manage_threads" /\ item' = 1
                     /\ UNCHANGED <<section, config_id, sync_pair>>
                ELSE /\ sync_pair' = ResolveSyncPair(static, ids[item])
                     /\ section' = "sync" /\ config_id' = ids[item]
                     /\ pc' = "sync_one" /\ UNCHANGED item
          /\ UNCHANGED <<static, now, world, file, dynamic_config,
                         dynamic_config_active, thread_config, source_content,
                         target_i, new_thread, sticky_to_keep, counters, edit_calls,
                         write_calls, quiet>>

\* NoTargets without the test: a pair always counts as having targets.
TargetsAssumed(pair) == FALSE

\* Line 962: not sync_pair["targets"]
NoTargets(pair) == pair["targets"] = <<>>

\* Lines 956-971: the checks and the source.
sync_one ==
  /\ pc = "sync_one"
  /\ LET source_config == SourceConfig(sync_pair)
     IN IF ~(sync_pair["enabled"] /\ source_config["enabled"])
        THEN /\ Returned
             /\ UNCHANGED <<static, now, world, file, dynamic_config,
                            dynamic_config_active, counters, edit_calls, write_calls,
                            quiet>>
        ELSE IF NoTargets(sync_pair) \/ ~EndpointExists(source_config)
        THEN Raised
        ELSE LET result == process_source_endpoint(source_config, Record)
             IN /\ dynamic_config_active' = WithRecord(result.record)
                /\ IF result.content.kind = "False"
                   THEN Returned
                   ELSE /\ pc' = "sync_targets" /\ target_i' = 1
                        /\ source_content' = result.content
                        /\ UNCHANGED <<item, section, config_id, thread_config,
                                       sync_pair, new_thread, sticky_to_keep>>
                /\ UNCHANGED <<static, now, world, file, dynamic_config, counters,
                               edit_calls, write_calls, quiet>>

\* Lines 973-989: one round of the loop over the targets, or its end.
RunFrame == <<static, now, file, dynamic_config, dynamic_config_active, counters,
              write_calls, quiet>>

\* NextTarget leaving the loop over the targets: the pair is abandoned.
PairAbandoned ==
  /\ pc' = "sync_all" /\ item' = item + 1 /\ ClearLocals

NextTarget ==
  /\ target_i' = target_i + 1
  /\ UNCHANGED <<pc, item, section, config_id, thread_config, sync_pair,
                 source_content, new_thread, sticky_to_keep>>

sync_targets ==
  /\ pc = "sync_targets"
  /\ IF target_i > Len(sync_pair["targets"])
     THEN Returned /\ UNCHANGED <<world, edit_calls, RunFrame>>
     ELSE LET target_config == TargetConfig(sync_pair, target_i)
          IN IF ~target_config["enabled"]
             THEN NextTarget /\ UNCHANGED <<world, edit_calls, RunFrame>>
             ELSE IF ~EndpointExists(target_config)
             THEN Raised
             ELSE LET target_content ==
                        process_target_endpoint(target_config, source_content)
                  IN IF target_content.kind = "False"
                     THEN NextTarget /\ UNCHANGED <<world, edit_calls, RunFrame>>
                     ELSE /\ NextTarget
                          /\ edit_calls' = edit_calls + 1
                          /\ IF target_config["endpoint_type"] = "THREAD"
                             THEN /\ threads' = ThreadEdited(
                                       threads, target_config["endpoint_name"],
                                       target_content.text)
                                  /\ UNCHANGED wiki
                             ELSE /\ wiki' = WikiEdited(
                                       wiki, target_config["endpoint_name"],
                                       target_content.text)
                                  /\ UNCHANGED threads
                          /\ UNCHANGED <<menu, stickies, sticky_cache, RunFrame>>

(***************************************************************************)
(* manage_threads (lines 794-816) and manage_thread (lines 736-791).       *)
(***************************************************************************)
manage_threads ==
  /\ pc = "manage_threads"
  /\ IF SectionKeyMissing(static, "megathread")
     THEN Raised
     ELSE /\ LET ids == ItemsInOrder(static["megathread"]["megathreads"])
             IN IF ~static["megathread"]["enabled"] \/ item > Len(ids)
                THEN /\ pc' = "finish" /\ item' = 0
                     /\ UNCHANGED <<section, config_id, thread_config>>
                ELSE /\ thread_config' = ResolveThreadConfig(static, ids[item])
                     /\ section' = "megathread" /\ config_id' = ids[item]
                     /\ pc' = "manage_thread" /\ UNCHANGED item
          /\ UNCHANGED <<world, edit_calls, RunFrame, sync_pair, source_content,
                         target_i, new_thread, sticky_to_keep>>

manage_thread ==
  /\ pc = "manage_thread"
  /\ IF ~thread_config["enabled"]
     THEN Returned /\ UNCHANGED <<world, edit_calls, RunFrame>>
     ELSE LET decision == ManageThreadDecision(thread_config, Record, threads, now)
          IN IF decision = "True"
             THEN /\ pc' = "cnt_counters"
                  /\ UNCHANGED <<world, edit_calls, RunFrame, locals>>
             ELSE IF decision = "False" /\ "target" \in DOMAIN thread_config
             THEN /\ sync_pair' = MegathreadSyncPair(thread_config, Record)
                  /\ pc' = "sync_one"
                  /\ UNCHANGED <<world, edit_calls, RunFrame, item, section, config_id,
                                 thread_config, source_content, target_i, new_thread,
                                 sticky_to_keep>>
             ELSE Raised

(***************************************************************************)
(* create_new_thread (lines 633-733), one step per group of lines.         *)
(***************************************************************************)
StepFrame == <<item, section, config_id, thread_config, sync_pair, target_i>>

\* Rotated counting a rotation twice.
RotatedTwice(record) ==
  [record EXCEPT !["source_timestamp"] = 0,
                 !["thread_number"] = record["thread_number"] + 2]

\* Rotated without the reset of source_timestamp.
RotatedKeepingStamp(record) ==
  [record EXCEPT !["thread_number"] = record["thread_number"] + 1]

\* Rotated forgetting the thread at once: thread_id is cleared with the counters.
RotatedClearingId(record) ==
  [record EXCEPT !["source_timestamp"] = 0,
                 !["thread_number"] = record["thread_number"] + 1,
                 !["thread_id"] = ""]

\* Lines 640-641.
Rotated(record) ==
  [record EXCEPT !["source_timestamp"] = 0,
                 !["thread_number"] = record["thread_number"] + 1]

cnt_counters ==
  /\ pc = "cnt_counters"
  /\ dynamic_config_active' = WithRecord(Rotated(Record))
  /\ pc' = "cnt_source"
  /\ UNCHANGED <<static, now, world, file, dynamic_config, counters, edit_calls,
                 write_calls, quiet, locals>>

\* Lines 645-662: thread_config["target"], then the text of the post.
cnt_source ==
  /\ pc = "cnt_source"
  /\ IF "target" \notin DOMAIN thread_config
        \/ ~EndpointExists(ThreadSourceConfig(thread_config))
     THEN Raised
     ELSE LET result == process_source_endpoint(ThreadSourceConfig(thread_config), Record)
          IN /\ dynamic_config_active' = WithRecord(result.record)
             /\ source_content' = result.content
             /\ pc' = "cnt_submit"
             /\ UNCHANGED <<static, now, world, file, dynamic_config, counters,
                            edit_calls, write_calls, quiet, StepFrame, new_thread,
                            sticky_to_keep>>

\* The id the platform gives to the next thread.
NextThreadId(all_threads) == ThreadIds[Cardinality(DOMAIN all_threads)]

\* subreddit.submit(title, selftext) and mod.approve()
Submitted(all_threads, id, number, selftext, created) ==
  [x \in (DOMAIN all_threads) \cup {id} |->
     IF x = id
     THEN [number |-> number, selftext |-> selftext, created |-> created, edited |-> 0,
           approved |-> TRUE, redirected |-> FALSE]
     ELSE all_threads[x]]

\* Lines 665-678.  A post_text of False is not a text: the submit call either
\* rejects it or posts it as it is.
cnt_submit ==
  /\ pc = "cnt_submit"
  /\ \E accepts \in BOOLEAN :
       IF source_content.kind = "False" /\ ~accepts
       THEN Raised
       ELSE /\ new_thread' = NextThreadId(threads)
            /\ threads' = Submitted(threads, NextThreadId(threads),
                                    Record["thread_number"],
                                    IF source_content.kind = "False" THEN FalseStr
                                    ELSE source_content.text,
                                    now)
            /\ pc' = "cnt_unpin"
            /\ UNCHANGED <<static, now, wiki, menu, stickies, sticky_cache, file,
                           dynamic_config, dynamic_config_active, counters, edit_calls,
                           write_calls, quiet, StepFrame, source_content,
                           sticky_to_keep>>

\* Lines 681-685: unpin the current thread.  The listing as it was is what
\* a stale read still returns.
cnt_unpin ==
  /\ pc = "cnt_unpin"
  /\ IF thread_config["pin_thread"] = ""
     THEN pc' = "cnt_links" /\ UNCHANGED <<stickies, sticky_cache>>
     ELSE /\ pc' = "cnt_pin"
          /\ sticky_cache' = stickies
          /\ stickies' = IF Record["thread_id"] # ""
                         THEN Unstickied(stickies, Record["thread_id"])
                         ELSE stickies
  /\ UNCHANGED <<static, now, wiki, menu, threads, file, dynamic_config,
                 dynamic_config_active, counters, edit_calls, write_calls, quiet,
                 locals>>

\* Lines 686-694: look up the thread to keep pinned, pin the new one, pin
\* the thread to keep again.
cnt_pin ==
  /\ pc = "cnt_pin"
  /\ \E view \in {stickies, sticky_cache} :
       LET keep == StickyToKeep(view, Record["thread_id"])
           pinned == Stickied(stickies, new_thread, thread_config["pin_thread"] # "top")
       IN /\ sticky_to_keep' = keep
          /\ stickies' = IF keep # "" THEN Stickied(pinned, keep, TRUE) ELSE pinned
  /\ pc' = "cnt_links"
  /\ UNCHANGED <<static, now, wiki, menu, threads, sticky_cache, file, dynamic_config,
                 dynamic_config_active, counters, edit_calls, write_calls, quiet,
                 StepFrame, source_content, new_thread>>

\* Lines 698-717: the content of a link page with the links to the old
\* thread replaced.
LinksUpdated(content, old_id, new_id) ==
  ReSubIgnoreCase(ReSubIgnoreCase(content, Permalink(old_id), Permalink(new_id)),
                  Shortlink(old_id), Shortlink(new_id))

\* Lines 702-719 for the pages after the first: links (lines 698-701) is a
\* generator, used up by the loop of lines 711-717 for the first page, so
\* that loop has nothing to go over and the page is saved as it was read.
RECURSIVE PagesResaved(_, _)
PagesResaved(w, pages) ==
  IF pages = <<>> THEN w
  ELSE PagesResaved(WikiEdited(w, Head(pages), w[Head(pages)].content), Tail(pages))

LinkPagesEdited(w, pages, old_id, new_id) ==
  IF pages = <<>> THEN w
  ELSE PagesResaved(
         WikiEdited(w, Head(pages), LinksUpdated(w[Head(pages)].content, old_id, new_id)),
         Tail(pages))

\* Lines 722-730: the redirect message on the old thread.
Redirected(all_threads, config, old_id, current_time) ==
  [all_threads EXCEPT
     ![old_id].selftext = IF config["new_thread_redirect_op"] THEN <<"r">> \o @ ELSE @,
     ![old_id].edited = IF config["new_thread_redirect_op"] THEN current_time ELSE @,
     ![old_id].redirected = config["new_thread_redirect_sticky"] \/ @]

\* Lines 697-733: the links, the redirect, and the id of the new thread.
cnt_links ==
  /\ pc = "cnt_links"
  /\ IF Record["thread_id"] # ""
     THEN /\ wiki' = LinkPagesEdited(wiki, thread_config["link_update_pages"],
                                     Record["thread_id"], new_thread)
          /\ threads' = Redirected(threads, thread_config, Record["thread_id"], now)
     ELSE UNCHANGED <<wiki, threads>>
  /\ dynamic_config_active' = WithRecord([Record EXCEPT !["thread_id"] = new_thread])
  /\ Returned
  /\ UNCHANGED <<static, now, menu, stickies, sticky_cache, file, dynamic_config,
                 counters, edit_calls, write_calls, quiet>>

(***************************************************************************)
(* What happens outside the program, between its runs.                     *)
(***************************************************************************)
OutsideFrame == <<static, file, dynamic_config, dynamic_config_active, pc, locals,
                  edit_calls, write_calls, runs, failures>>

\* A day passes.
Tick ==
  /\ pc = "idle" /\ ticks < MaxTicks
  /\ now' = now + 1 /\ ticks' = ticks + 1
  /\ quiet' = FALSE
  /\ UNCHANGED <<OutsideFrame, world, user_edits>>

\* A user saves a new revision of the source page W1.
UserEdit ==
  /\ pc = "idle" /\ user_edits < MaxUserEdits
  /\ \E text \in {SourceText("y"), NoMarkerText} :
       wiki' = WikiEdited(wiki, "W1", text)
  /\ user_edits' = user_edits + 1
  /\ quiet' = FALSE
  /\ UNCHANGED <<OutsideFrame, now, menu, threads, stickies, sticky_cache, ticks>>

\* A moderator pins the thread b below the pinned threads.
UserPin ==
  /\ pc = "idle" /\ user_edits < MaxUserEdits
  /\ Len(stickies) < 2 /\ \A i \in 1..Len(stickies) : stickies[i] # "b"
  /\ stickies' = Append(stickies, "b")
  /\ sticky_cache' = stickies'
  /\ user_edits' = user_edits + 1
  /\ quiet' = FALSE
  /\ UNCHANGED <<OutsideFrame, now, wiki, menu, threads, ticks>>

\* The places of a run whose next step calls the platform.
ExternalCallPending ==
  \/ pc \in {"cnt_source", "cnt_submit", "cnt_pin"}
  \/ pc = "sync_targets" /\ target_i <= Len(sync_pair["targets"])
        /\ TargetConfig(sync_pair, target_i)["enabled"]
  \/ pc = "sync_one" /\ sync_pair["enabled"] /\ SourceConfig(sync_pair)["enabled"]
        /\ sync_pair["targets"] # <<>>
  \/ pc = "manage_thread" /\ thread_config["enabled"]
        /\ thread_config["new_thread_interval"] # <<>> /\ Record["thread_id"] # ""
  \/ pc = "cnt_unpin" /\ thread_config["pin_thread"] # ""
  \/ pc = "cnt_links" /\ Record["thread_id"] # ""

\* The call fails; the exception is not caught.
Fail ==
  /\ pc # "idle" /\ failures < MaxFailures
  /\ ExternalCallPending
  /\ failures' = failures + 1
  /\ Aborted
  /\ UNCHANGED <<runs, ticks, user_edits>>

Next ==
  \/ RunStart \/ sync_all \/ sync_one \/ sync_targets
  \/ manage_threads \/ manage_thread
  \/ cnt_counters \/ cnt_source \/ cnt_submit \/ cnt_unpin \/ cnt_pin \/ cnt_links
  \/ RunFinish
  \/ Tick \/ UserEdit \/ UserPin \/ Fail

Spec == Init /\ [][Next]_vars

(***************************************************************************)
(* The rotation decision on its own: manage_thread (lines 742-775) reached *)
(* in a run for a megathread whose live thread t1 was created on one of    *)
(* the days from 2023-12-31 on, with the interval one of DecideIntervals.  *)
(***************************************************************************)
UnitWords ==
  {<<"d", "a", "y">>, <<"w", "e", "e", "k">>, <<"m", "o", "n", "t", "h">>,
   <<"y", "e", "a", "r">>, <<"m", "o", "n", "t", "h", "l", "y">>,
   <<"w", "e", "e", "k", "l", "y">>, <<"d", "a", "i", "l", "y">>}

CountedUnitWords ==
  {<<"d", "a", "y", "s">>, <<"w", "e", "e", "k">>, <<"w", "e", "e", "k", "s">>,
   <<"m", "o", "n", "t", "h", "s">>, <<"y", "e", "a", "r">>}

\* raw_interval.split() for the intervals "<unit>" and "<n> <unit>"
DecideIntervals ==
  {<<u>> : u \in UnitWords} \cup {<<n, u>> : n \in 0..MaxN, u \in CountedUnitWords}

DecideFrom == Ordinal([year |-> 2023, month |-> 12, day |-> 31])

DecideConfig(interval) ==
  [StaticConfig("none", "top") EXCEPT
     !["megathread"]["megathreads"]["m1"] =
        Merge(@, [new_thread_interval |-> interval])]

DecideRecord == [thread_number |-> 1, thread_id |-> "t1", source_timestamp |-> 1]

InitDecide ==
  /\ \E interval \in DecideIntervals : static = DecideConfig(interval)
  /\ \E created \in DecideFrom..(DecideFrom + MaxDay) :
       /\ now \in created..(DecideFrom + MaxDay)
       /\ threads = [b |-> [number |-> 0, selftext |-> <<"o">>, created |-> 0,
                            edited |-> 0, approved |-> TRUE, redirected |-> FALSE],
                     t1 |-> [number |-> 1, selftext |-> <<"x">>, created |-> created,
                             edited |-> 0, approved |-> TRUE, redirected |-> FALSE]]
  /\ wiki = [W1 |-> [content |-> SourceText("x"), rev |-> 1],
             W2 |-> [content |-> TargetText, rev |-> 1],
             W3 |-> [content |-> TargetText, rev |-> 1],
             W4 |-> [content |-> TargetText, rev |-> 1],
             N |-> [content |-> NoMarkerText, rev |-> 1],
             L |-> [content |-> LinkPageText, rev |-> 1]]
  /\ menu = <<"m">>
  /\ stickies = <<"t1", "b">> /\ sticky_cache = stickies
  /\ dynamic_config = render_dynamic_config(static, [megathread |-> [m1 |-> DecideRecord]])
  /\ dynamic_config_active = dynamic_config
  /\ file = [exists |-> TRUE, doc |-> dynamic_config]
  /\ pc = "manage_thread"
  /\ item = 1 /\ section = "megathread" /\ config_id = "m1"
  /\ thread_config = ResolveThreadConfig(static, "m1")
  /\ sync_pair = EmptyDict /\ source_content = FalseContent /\ target_i = 0
  /\ new_thread = "" /\ sticky_to_keep = ""
  /\ runs = 1 /\ ticks = 0 /\ user_edits = 0 /\ failures = 0
  /\ edit_calls = 0 /\ write_calls = 0
  /\ quiet = FALSE

NextDecide == manage_thread

SpecDecide == InitDecide /\ [][NextDecide]_vars

(***************************************************************************)
(* Properties.  The configurations have one megathread, m1.                *)
(***************************************************************************)
MegaIds == DOMAIN static["megathread"]["megathreads"]

PairIds == DOMAIN static["sync"]["pairs"]

ThreadNumber(d, id) == d["megathread"][id]["thread_number"]

ThreadId(d, id) == d["megathread"][id]["thread_id"]

Stamp(d, sec, id) == d[sec][id]["source_timestamp"]

CntPcs == {"cnt_counters", "cnt_source", "cnt_submit", "cnt_unpin", "cnt_pin", "cnt_links"}

ReturnPcs == {"sync_all", "manage_threads"}

\* sync_one is about to read a source that has a revision date.
GateApplies ==
  /\ pc = "sync_one"
  /\ sync_pair["enabled"] /\ SourceConfig(sync_pair)["enabled"]
  /\ sync_pair["targets"] # <<>>
  /\ HasRevisionDate(SourceConfig(sync_pair))
  /\ EndpointExists(SourceConfig(sync_pair))

\* C1: staleness gate.  When sync_one runs for a pair whose source has a
\* revision date, with T the stored source_timestamp: if the source's revision
\* is not greater than T, the call returns with no target written and the
\* record unchanged; if it is greater, source_timestamp becomes that revision
\* and the targets are processed with the extracted text (or, the markers
\* missing in the source, the call returns).
C1StalenessGate ==
  [][(GateApplies /\ failures' = failures) =>
       LET source_config == SourceConfig(sync_pair)
           T == Record["source_timestamp"]
           revision == RevisionDate(source_config)
           region == ExtractText(EndpointContent(source_config).text, source_config)
       IN IF revision <= T
          THEN /\ dynamic_config_active' = dynamic_config_active
               /\ world' = world /\ edit_calls' = edit_calls
               /\ pc' \in ReturnPcs
          ELSE /\ Stamp(dynamic_config_active', section, config_id) = revision
               /\ world' = world
               /\ IF region = FalseStr
                  THEN pc' \in ReturnPcs
                  ELSE /\ pc' = "sync_targets" /\ target_i' = 1
                       /\ source_content' =
                            StrContent(replace_patterns(region,
                                                        source_config["replace_patterns"]))
    ]_vars

\* The second run of the fan-out pair has passed p1, whose source W1 is at the
\* stored revision: the two writes made so far are those of the first run.
C1Witness ==
  /\ static = StaticConfig("fanout", "disabled")
  /\ pc = "sync_all" /\ item = 2 /\ runs = 2 /\ failures = 0 /\ user_edits = 0
  /\ edit_calls = 2
  /\ Stamp(dynamic_config_active, "sync", "p1") = wiki["W1"].rev

\* The source of an enabled item is not newer than the persisted record says.
SourceCurrent(source_config, record) ==
  (source_config["enabled"] /\ HasRevisionDate(source_config)
     /\ EndpointExists(source_config))
    => RevisionDate(source_config) <= record["source_timestamp"]

\* No enabled item has a source newer than its persisted source_timestamp.
UpToDate ==
  /\ file.exists
  /\ static["sync"]["enabled"] =>
       \A id \in PairIds :
         LET pair == ResolveSyncPair(static, id)
         IN pair["enabled"] =>
              SourceCurrent(SourceConfig(pair), file.doc["sync"][id])
  /\ static["megathread"]["enabled"] =>
       \A id \in MegaIds :
         LET config == ResolveThreadConfig(static, id)
         IN config["enabled"] =>
              SourceCurrent(ThreadSourceConfig(config), file.doc["megathread"][id])

C3WriteIffChanged ==
  [][/\ (pc = "finish") =>
          IF dynamic_config_active # dynamic_config
          THEN /\ file' = [exists |-> TRUE, doc |-> dynamic_config_active]
               /\ write_calls' = write_calls + 1
          ELSE file' = file /\ write_calls' = write_calls
     /\ (pc \notin {"idle", "finish"}) => (file' = file /\ write_calls' = write_calls)
     /\ (pc = "idle" /\ pc' # "idle") =>
          /\ dynamic_config' =
               render_dynamic_config(static, IF file.exists THEN file.doc ELSE EmptyDict)
          /\ dynamic_config_active' = dynamic_config'
    ]_vars

\* Two runs of the megathread have ended on the same day: the first published
\* a thread and wrote the file, the second changed no record and wrote nothing.
C3Witness ==
  /\ static = StaticConfig("none", "top")
  /\ pc = "idle" /\ quiet /\ runs = 2 /\ failures = 0 /\ user_edits = 0 /\ ticks = 0
  /\ write_calls = 2
  /\ ThreadNumber(file.doc, "m1") = 1

\* C4: thread_number only increases.  In the file it never decreases, and it
\* increases only at the end of a run that rotated the megathread, by 1; a
\* run starts from the number in the file; during a run the number of the
\* working copy changes only in the first step of create_new_thread, by 1.
C4ThreadNumberMonotone ==
  [][\A id \in MegaIds :
       /\ file.exists =>
            \/ ThreadNumber(file'.doc, id) = ThreadNumber(file.doc, id)
            \/ /\ ThreadNumber(file'.doc, id) = ThreadNumber(file.doc, id) + 1
               /\ pc = "finish"
               /\ ThreadNumber(dynamic_config_active, id)
                    = ThreadNumber(dynamic_config, id) + 1
       /\ (pc = "idle" /\ pc' # "idle" /\ file.exists) =>
            ThreadNumber(dynamic_config_active', id) = ThreadNumber(file.doc, id)
       /\ (pc # "idle" /\ pc' # "idle") =>
            ThreadNumber(dynamic_config_active', id)
              = ThreadNumber(dynamic_config_active, id)
                  + (IF pc = "cnt_counters" /\ config_id = id THEN 1 ELSE 0)
    ]_vars

\* The megathread has been rotated in two runs: the file says thread number 2.
C4Witness ==
  /\ pc = "idle" /\ file.exists
  /\ ThreadNumber(file.doc, "m1") = 2
  /\ ThreadId(file.doc, "m1") = "t2"

\* C5: source_timestamp only increases, except for the reset at a rotation.
\* During a run the source_timestamp of each record of the working copy
\* never decreases, except in the first step of create_new_thread, which sets
\* that of the megathread being rotated to 0; a run starts from the values in
\* the file; in the file a source_timestamp decreases only with a rotation of
\* its megathread.
C5SourceTimestampMonotone ==
  [][\A sec \in {"sync", "megathread"} :
       \A id \in (IF sec = "sync" THEN PairIds ELSE MegaIds) :
         /\ (pc # "idle" /\ pc' # "idle") =>
              IF pc = "cnt_counters" /\ sec = section /\ id = config_id
              THEN Stamp(dynamic_config_active', sec, id) = 0
              ELSE Stamp(dynamic_config_active', sec, id)
                     >= Stamp(dynamic_config_active, sec, id)
         /\ (pc = "idle" /\ pc' # "idle" /\ file.exists) =>
              Stamp(dynamic_config_active', sec, id) = Stamp(file.doc, sec, id)
         /\ file.exists =>
              \/ Stamp(file'.doc, sec, id) >= Stamp(file.doc, sec, id)
              \/ /\ sec = "megathread"
                 /\ ThreadNumber(file'.doc, id) > ThreadNumber(file.doc, id)
    ]_vars

\* A rotation has just reset a source_timestamp that the run started with.
C5Witness ==
  /\ pc = "cnt_source"
  /\ Stamp(dynamic_config, "megathread", "m1") > 0
  /\ Stamp(dynamic_config_active, "megathread", "m1") = 0

\* The run is at a megathread that is enabled, has an interval and had no
\* thread_id when the run started.
RotatingFromNoThread ==
  /\ pc \in {"manage_thread"} \cup CntPcs
  /\ thread_config["enabled"] /\ thread_config["new_thread_interval"] # <<>>
  /\ ThreadId(dynamic_config, config_id) = ""

\* C6 (as stated): an enabled megathread with an interval and no thread_id
\* rotates in that run: manage_thread goes on to create_new_thread, which,
\* no external call failing, does not raise, publishes a thread, and ends
\* with thread_id the id of that thread.
C6FirstThreadPublished ==
  [][(RotatingFromNoThread /\ failures' = failures) =>
       /\ pc' # "idle"
       /\ (pc = "manage_thread") => (pc' = "cnt_counters")
       /\ (pc = "cnt_submit") =>
            (new_thread' \in (DOMAIN threads') \ (DOMAIN threads))
       /\ (pc = "cnt_links") =>
            /\ new_thread \in DOMAIN threads
            /\ ThreadId(dynamic_config_active', config_id) = new_thread
    ]_vars

\* The megathread never rotates: it has no interval.
NeverRotates(id) ==
  /\ "defaults" \in DOMAIN static["megathread"]
  /\ ResolveThreadConfig(static, id)["new_thread_interval"] = <<>>

ThreadFields(d, id) == <<ThreadId(d, id), ThreadNumber(d, id)>>

\* C7: a megathread without an interval never rotates.  No thread is
\* published and create_new_thread is never entered; thread_id and
\* thread_number change neither in the working copy nor in the file; and
\* manage_thread, for an enabled megathread (that declares a target), goes on
\* to sync_one with a pair whose only target is the thread endpoint named by
\* thread_id.
C7NoIntervalNeverRotates ==
  [][\A id \in MegaIds : NeverRotates(id) =>
       /\ DOMAIN threads' = DOMAIN threads
       /\ pc' \notin CntPcs
       /\ (pc # "idle" /\ pc' # "idle") =>
            ThreadFields(dynamic_config_active', id) = ThreadFields(dynamic_config_active, id)
       /\ (pc = "idle" /\ pc' # "idle" /\ file.exists) =>
            ThreadFields(dynamic_config_active', id) = ThreadFields(file.doc, id)
       /\ file.exists => ThreadFields(file'.doc, id) = ThreadFields(file.doc, id)
       /\ (pc = "manage_thread" /\ config_id = id /\ thread_config["enabled"]
             /\ "target" \in DOMAIN thread_config) =>
            /\ pc' = "sync_one"
            /\ Len(sync_pair'["targets"]) = 1
            /\ TargetConfig(sync_pair', 1)["endpoint_type"] = "THREAD"
            /\ TargetConfig(sync_pair', 1)["endpoint_name"] = Record["thread_id"]
    ]_vars

\* A run of the megathread seeded with the thread b has ended: the thread b
\* has the source's region as its text, and is still thread number 5.
C7Witness ==
  /\ static = StaticConfig("none", "seeded")
  /\ pc = "idle" /\ quiet
  /\ threads["b"].selftext = <<"x">>
  /\ ThreadFields(file.doc, "m1") = <<"b", 5>>
  /\ DOMAIN threads = {"b"}

\* create_new_thread is about to pin the new thread; two threads were pinned,
\* the megathread being retired in slot 1.
RetiringSlotOne ==
  /\ pc = "cnt_pin"
  /\ Record["thread_id"] # ""
  /\ Len(sticky_cache) = 2 /\ sticky_cache[1] = Record["thread_id"]

IsPinned(listing, id) == \E i \in 1..Len(listing) : listing[i] = id

\* C10 (as amended): pin preservation.  Two threads are pinned and the one in
\* slot 1 is the megathread being retired: whether the lookup of slot 1
\* answers from the listing after the unpinning or from the one before it,
\* the thread to keep is the one that was in slot 2; afterwards the new
\* thread and that thread are pinned and the retired thread is not; and with
\* pin_thread = "top" the new thread is in slot 1 and the other in slot 2.
C10PinPreservation ==
  [][(RetiringSlotOne /\ failures' = failures) =>
       /\ sticky_to_keep' = sticky_cache[2]
       /\ IsPinned(stickies', new_thread)
       /\ IsPinned(stickies', sticky_cache[2])
       /\ ~IsPinned(stickies', Record["thread_id"])
       /\ (thread_config["pin_thread"] = "top") =>
            (stickies' = <<new_thread, sticky_cache[2]>>)
    ]_vars

\* C10 (as stated): the same, the new thread in slot 1 whatever pin_thread is.
C10AsStated ==
  [][(RetiringSlotOne /\ failures' = failures) =>
       /\ sticky_to_keep' = sticky_cache[2]
       /\ stickies' = <<new_thread, sticky_cache[2]>>
    ]_vars

\* A rotation has replaced the megathread t1 in slot 1 by the new thread and
\* the thread b is still in slot 2.
C10Witness ==
  /\ pc = "cnt_links"
  /\ thread_config["pin_thread"] = "top"
  /\ Record["thread_id"] = "t1"
  /\ sticky_cache = <<"t1", "b">>
  /\ stickies = <<new_thread, "b">>
  /\ sticky_to_keep = "b"

(***************************************************************************)
(* Properties of the rotation decision (checked under SpecDecide).         *)
(***************************************************************************)
\* manage_thread is about to decide for an enabled megathread that has an
\* interval and a live thread.
DecisionDue ==
  /\ pc = "manage_thread"
  /\ thread_config["enabled"] /\ thread_config["new_thread_interval"] # <<>>
  /\ Record["thread_id"] \in DOMAIN threads

ParsedUnit == process_raw_interval(thread_config["new_thread_interval"])[1]

ParsedN == process_raw_interval(thread_config["new_thread_interval"])[2]

LiveCreated == FromTimestamp(threads[Record["thread_id"]].created)

Today == FromTimestamp(now)

Year == <<"y", "e", "a", "r">>

Month == <<"m", "o", "n", "t", "h">>

Week == <<"w", "e", "e", "k">>

Day == <<"d", "a", "y">>

\* The interval is a unit alone that names a calendar field.
UnitOnlyDue == DecisionDue /\ ParsedN = NoneInt /\ ParsedUnit \in {Year, Month, Day}

\* The calendar field the unit names.
FieldNamed(date) ==
  IF ParsedUnit = Year THEN date.year
  ELSE IF ParsedUnit = Month THEN date.month
  ELSE date.day

\* The calendar period of the unit that the date lies in.
PeriodOf(date) ==
  IF ParsedUnit = Year THEN <<date.year, 1, 1>>
  ELSE IF ParsedUnit = Month THEN <<date.year, date.month, 1>>
  ELSE <<date.year, date.month, date.day>>

\* C8 (as amended): with a unit-only interval and a live thread, the
\* megathread rotates exactly when the calendar field named by the unit
\* differs between the current date and the date the live thread was created
\* on (the field alone is compared: a later period with the same value of
\* the field does not rotate); else it is resynced.  With "month", a thread
\* created on the last day of a month rotates on the day after, and does not
\* rotate on a day of the same month.
C8UnitOnlyRotation ==
  [][UnitOnlyDue =>
       /\ (pc' = "cnt_counters") <=> (FieldNamed(Today) # FieldNamed(LiveCreated))
       /\ pc' \in {"cnt_counters", "sync_one"}
       /\ (/\ ParsedUnit = Month
           /\ LiveCreated.day = DaysInMonth(LiveCreated.year, LiveCreated.month)
           /\ Ordinal(Today) = Ordinal(LiveCreated) + 1) => (pc' = "cnt_counters")
       /\ (/\ ParsedUnit = Month
           /\ Today.year = LiveCreated.year
           /\ Today.month = LiveCreated.month) => (pc' = "sync_one")
    ]_vars

\* C8 (as stated): the megathread rotates exactly when the current date lies
\* in another calendar period of the unit than the date the live thread was
\* created on (a calendar boundary of the unit was crossed).
C8AsStated ==
  [][UnitOnlyDue =>
       ((pc' = "cnt_counters") <=> (PeriodOf(Today) # PeriodOf(LiveCreated)))
    ]_vars

\* The megathread with interval "month" whose thread was created on
\* 2024-01-31 has been found due on 2024-02-01.
C8Witness ==
  /\ pc = "cnt_counters"
  /\ thread_config["new_thread_interval"] = <<Month>>
  /\ FromTimestamp(threads["t1"].created) = [year |-> 2024, month |-> 1, day |-> 31]
  /\ Today = [year |-> 2024, month |-> 2, day |-> 1]

\* The interval has a multiplier, or is "week" alone.
CountedDue ==
  /\ DecisionDue
  /\ HasDeltaUnit(ParsedUnit)
  /\ Len(thread_config["new_thread_interval"]) = 2 \/ ParsedUnit = Week

\* The multiplier as written: 1 for "week" alone.
WrittenN ==
  IF Len(thread_config["new_thread_interval"]) = 2
  THEN thread_config["new_thread_interval"][1]
  ELSE 1

\* C9 (as stated): with a multiplier N (1 for "week" alone) and a live
\* thread, the megathread rotates exactly when the current date is later
\* than the date the live thread was created on plus N calendar units.
C9CountedRotation ==
  [][CountedDue =>
       ((pc' = "cnt_counters")
          <=> (now > Ordinal(RelativeAdd(LiveCreated, ParsedUnit, WrittenN))))
    ]_vars

\* The same for the multipliers from 1 on: this part of C9 holds.
C9FromOne ==
  [][(CountedDue /\ WrittenN >= 1) =>
       /\ (pc' = "cnt_counters")
            <=> (now > Ordinal(RelativeAdd(LiveCreated, ParsedUnit, WrittenN)))
       /\ pc' \in {"cnt_counters", "sync_one"}
    ]_vars

(***************************************************************************)
(* The resolution of the settings on its own: sync_all (lines 997-1004)    *)
(* and manage_threads (lines 800-810) reached in a run whose static config *)
(* sets one key in some of the four layers: the global defaults, the       *)
(* defaults of the section, the defaults of the item, the item itself.     *)
(* For the source of the pair p1 the key is pattern; for the megathread m1 *)
(* it is one of LayerKeys.                                                 *)
(***************************************************************************)
LayerKeys == {"pin_thread", "subreddit"}

LayerChoices == [global : BOOLEAN, section : BOOLEAN, own : BOOLEAN, field : BOOLEAN]

\* {key: value} if on, else {}
Layer(on, key, value) == IF on THEN (key :> value) ELSE EmptyDict

LayerConfig(c, key) ==
  [defaults |-> Merge(Merge([account |-> "acct", subreddit |-> "sub"],
                            Layer(c.global, "pattern", <<"G">>)),
                      Layer(c.global, key, "g")),
   sync |->
     [enabled |-> TRUE,
      defaults |-> Merge([pattern_end |-> <<"e">>, pattern_start |-> <<"s">>],
                         Layer(c.section, "pattern", <<"S">>)),
      pairs |->
        [p1 |-> [defaults |-> Layer(c.own, "pattern", <<"D">>),
                 source |-> Merge([endpoint_name |-> "W1"],
                                  Layer(c.field, "pattern", <<"F">>)),
                 targets |-> <<[endpoint_name |-> "W2"]>>]]],
   megathread |->
     [enabled |-> TRUE,
      defaults |-> Merge([new_thread_redirect_template |-> "redirect"],
                         Layer(c.section, key, "s")),
      megathreads |->
        [m1 |-> Merge(Merge([source |-> WikiEndpoint("W1"), target |-> EmptyDict],
                            [defaults |-> Layer(c.own, key, "d")]),
                      Layer(c.field, key, "f"))]]]

LayerConfigs == {LayerConfig(c, key) : c \in LayerChoices, key \in LayerKeys}

InitResolve ==
  /\ static \in LayerConfigs
  /\ now = Ordinal([year |-> 2023, month |-> 1, day |-> 31])
  /\ InitWorld
  /\ dynamic_config = render_dynamic_config(static, EmptyDict)
  /\ dynamic_config_active = dynamic_config
  /\ file = [exists |-> TRUE, doc |-> dynamic_config]
  /\ pc \in {"sync_all", "manage_threads"}
  /\ item = 1 /\ section = "" /\ config_id = ""
  /\ thread_config = EmptyDict /\ sync_pair = EmptyDict
  /\ source_content = FalseContent /\ target_i = 0
  /\ new_thread = "" /\ sticky_to_keep = ""
  /\ runs = 1 /\ ticks = 0 /\ user_edits = 0 /\ failures = 0
  /\ edit_calls = 0 /\ write_calls = 1
  /\ quiet = FALSE

NextResolve == sync_all \/ manage_threads

SpecResolve == InitResolve /\ [][NextResolve]_vars

\* The overlay of the layers for the megathread: the built-in defaults, the
\* global defaults, those of the section, those of the item, the item.
LayeredThreadConfig(id) ==
  LET own == static["megathread"]["megathreads"][id]
  IN Merge(Merge(Merge(Merge(DEFAULT_MEGATHREAD_CONFIG, static["defaults"]),
                       static["megathread"]["defaults"]),
                 Get(own, "defaults", EmptyDict)),
           own)

\* The same for the source of a sync pair.
LayeredSourceConfig(id) ==
  LET own == static["sync"]["pairs"][id]
  IN Merge(Merge(Merge(Merge(DEFAULT_SYNC_ENDPOINT, static["defaults"]),
                       static["sync"]["defaults"]),
                 Get(own, "defaults", EmptyDict)),
           Get(own, "source", EmptyDict))

\* The same for target i of a sync pair.
LayeredTargetConfig(id, i) ==
  LET own == static["sync"]["pairs"][id]
  IN Merge(Merge(Merge(Merge(DEFAULT_SYNC_ENDPOINT, static["defaults"]),
                       static["sync"]["defaults"]),
                 Get(own, "defaults", EmptyDict)),
           own["targets"][i])

\* The endpoints of a sync pair get the overlay of the layers.
EndpointsLayered ==
  (pc = "sync_all" /\ pc' = "sync_one") =>
    /\ SourceConfig(sync_pair') = LayeredSourceConfig(config_id')
    /\ \A i \in 1..Len(sync_pair'["targets"]) :
         TargetConfig(sync_pair', i) = LayeredTargetConfig(config_id', i)

\* The megathread gets the overlay of the layers (its defaults aside).
MegathreadLayered ==
  (pc = "manage_threads" /\ pc' = "manage_thread") =>
    \A k \in (DOMAIN LayeredThreadConfig(config_id')) \ {"defaults"} :
      /\ k \in DOMAIN thread_config'
      /\ thread_config'[k] = LayeredThreadConfig(config_id')[k]

\* C11 (as stated): config layering.  The settings sync_all resolves for the
\* endpoints of a pair, and those manage_threads resolves for a megathread,
\* are the overlay of the global defaults, the defaults of the section, the
\* defaults of the item and the item's own fields, later layers winning.
C11ConfigLayering == [][EndpointsLayered /\ MegathreadLayered]_vars

\* The part of C11 about the endpoints of the sync pairs: it holds.
C11Endpoints == [][EndpointsLayered]_vars

(***************************************************************************)
(* process_endpoint_text on its own: the target stage of sync_one (lines   *)
(* 973-989) entered with a source text Y for the pair p1 of the "fanout"   *)
(* configuration, whose target pages hold a region X between the markers,  *)
(* after a prefix and before a suffix.  No text holds a marker literal.    *)
(***************************************************************************)
RegionTexts == {<<>>, <<"o">>, <<"P">>, <<"s">>, <<"o", "o">>}

NewTexts == {<<>>, <<"y">>, <<"o">>}

Prefixes == {<<>>, <<"a">>, <<"o">>}

Suffixes == {<<>>, <<"b">>}

\* The content: prefix, start marker, region, end marker, suffix.
RegionPage(prefix, x, suffix) ==
  prefix \o MdMarker(<<"P", "s">>) \o x \o MdMarker(<<"P", "e">>) \o suffix

InitText ==
  /\ static = StaticConfig("fanout", "disabled")
  /\ now = Ordinal([year |-> 2023, month |-> 1, day |-> 31])
  /\ \E prefix \in Prefixes, x \in RegionTexts, suffix \in Suffixes :
       wiki = [W1 |-> [content |-> SourceText("x"), rev |-> 2],
               W2 |-> [content |-> RegionPage(prefix, x, suffix), rev |-> 1],
               W3 |-> [content |-> RegionPage(suffix, x, prefix), rev |-> 1],
               L |-> [content |-> LinkPageText, rev |-> 1]]
  /\ menu = <<"m">>
  /\ threads = [b |-> [number |-> 0, selftext |-> <<"o">>, created |-> 0, edited |-> 0,
                       approved |-> TRUE, redirected |-> FALSE]]
  /\ stickies = <<"b">> /\ sticky_cache = stickies
  /\ dynamic_config = render_dynamic_config(static, EmptyDict)
  /\ dynamic_config_active =
       [dynamic_config EXCEPT !["sync"]["p1"]["source_timestamp"] = 2]
  /\ file = [exists |-> TRUE, doc |-> dynamic_config]
  /\ pc = "sync_targets"
  /\ item = 1 /\ section = "sync" /\ config_id = "p1"
  /\ thread_config = EmptyDict
  /\ sync_pair = ResolveSyncPair(static, "p1")
  /\ source_content \in {StrContent(y) : y \in NewTexts}
  /\ target_i = 1
  /\ new_thread = "" /\ sticky_to_keep = ""
  /\ runs = 1 /\ ticks = 0 /\ user_edits = 1 /\ failures = 0
  /\ edit_calls = 0 /\ write_calls = 1
  /\ quiet = FALSE

NextText == sync_targets

SpecText == InitText /\ [][NextText]_vars

\* Target target_i is being processed and has a region between its markers.
TargetWithRegion ==
  /\ pc = "sync_targets" /\ target_i <= Len(sync_pair["targets"])
  /\ LET target_config == TargetConfig(sync_pair, target_i)
     IN /\ target_config["enabled"] /\ target_config["endpoint_type"] = "WIKI_PAGE"
        /\ ExtractText(wiki[target_config["endpoint_name"]].content, target_config)
             # FalseStr

\* The region of the page of target target_i, before and after the step.
RegionBefore ==
  LET target_config == TargetConfig(sync_pair, target_i)
  IN ExtractText(wiki[target_config["endpoint_name"]].content, target_config)

RegionAfter ==
  LET target_config == TargetConfig(sync_pair, target_i)
  IN ExtractText(wiki'[target_config["endpoint_name"]].content, target_config)

\* t occurs in s
Occurs(t, s) == \E i \in 1..(Len(s) + 1) : StartsAt(s, i, t)

\* x occurs in the text of one of the markers of target target_i
InMarkers(x) ==
  LET target_config == TargetConfig(sync_pair, target_i)
  IN \/ Occurs(x, MdMarker(target_config["pattern"] \o target_config["pattern_start"]))
     \/ Occurs(x, MdMarker(target_config["pattern"] \o target_config["pattern_end"]))

\* C12 (as stated): region round-trip.  When the content of a target holds a
\* region X between the markers and the region is replaced with the source
\* text Y, the region extracted from the new content is Y, for every X and Y
\* without marker literals.
C12RegionRoundTrip ==
  [][(TargetWithRegion /\ source_content.kind = "str")
       => RegionAfter = source_content.text]_vars

\* The round-trip of C12 for a region that does not occur in a marker (the
\* empty text occurs in every text): it holds.
C12OutsideMarkers ==
  [][(TargetWithRegion /\ source_content.kind = "str" /\ ~InMarkers(RegionBefore))
       => RegionAfter = source_content.text]_vars

\* An external call fails in this step.
CallFails == failures' = failures + 1

AtTarget ==
  /\ pc = "sync_targets" /\ section = "sync"
  /\ target_i \in 1..Len(sync_pair["targets"])

\* The markers of the target are found in its page, in the wiki w.
MarkersFound(w, target_config) ==
  ExtractText(w[target_config["endpoint_name"]].content, target_config) # FalseStr

\* The step passes over the target: nothing is written, nothing is raised,
\* no record changes, and the loop goes on with the next target.
TargetPassedOver ==
  /\ world' = world /\ edit_calls' = edit_calls
  /\ dynamic_config_active' = dynamic_config_active /\ file' = file
  /\ pc' = "sync_targets" /\ target_i' = target_i + 1

\* The loop over the targets of a sync pair returns in this step.
TargetsDone == pc = "sync_targets" /\ section = "sync" /\ pc' = "sync_all"

\* C14: target failure isolation.  In the target loop of sync_one a target
\* whose markers are not found is passed over without a write and without an
\* error; and when the loop returns, every enabled target whose page has the
\* markers, before or after such a target, holds the source text in its
\* region, and the source_timestamp of the pair is the revision of the source.
C14TargetIsolation ==
  [][/\ (/\ AtTarget /\ ~CallFails
          /\ TargetConfig(sync_pair, target_i)["enabled"]
          /\ EndpointExists(TargetConfig(sync_pair, target_i))
          /\ ~MarkersFound(wiki, TargetConfig(sync_pair, target_i)))
         => TargetPassedOver
     /\ (TargetsDone /\ source_content.kind = "str") =>
          /\ \A i \in 1..Len(sync_pair["targets"]) :
               LET target_config == TargetConfig(sync_pair, i)
               IN (target_config["enabled"] /\ MarkersFound(wiki', target_config))
                    => ExtractText(wiki'[target_config["endpoint_name"]].content,
                                   target_config) = source_content.text
          /\ HasRevisionDate(SourceConfig(sync_pair))
               => Record["source_timestamp"] = RevisionDate(SourceConfig(sync_pair))]_vars

\* The loop over the four targets of the "isolate" pair is over: W2 and W4,
\* on either side of the page N without markers, were written, N was not,
\* and the source_timestamp is the revision of W1.
C14Witness ==
  /\ static = StaticConfig("isolate", "disabled")
  /\ pc = "sync_targets" /\ target_i = 5 /\ failures = 0
  /\ wiki["W2"].rev = 2 /\ wiki["W4"].rev = 2 /\ wiki["N"].rev = 1
  /\ Record["source_timestamp"] = wiki["W1"].rev

\* sync_one is about to read the source of an enabled pair with targets.
AtSource ==
  /\ pc = "sync_one"
  /\ sync_pair["enabled"] /\ SourceConfig(sync_pair)["enabled"]
  /\ sync_pair["targets"] # <<>>
  /\ EndpointExists(SourceConfig(sync_pair))

\* The source is a text in which the markers of the source are not found.
SourceUnmatched ==
  LET content == EndpointContent(SourceConfig(sync_pair))
  IN /\ content.kind = "str"
     /\ ExtractText(content.text, SourceConfig(sync_pair)) = FalseStr

\* C15: when the markers of the source are not found in its content, sync_one
\* returns without a write to any target and without raising, and the run
\* goes on with the next item.
C15SourceNotFound ==
  [][(AtSource /\ SourceUnmatched /\ ~CallFails) =>
       /\ world' = world /\ edit_calls' = edit_calls
       /\ pc' = (IF section = "sync" THEN "sync_all" ELSE "manage_threads")
       /\ item' = item + 1 /\ runs' = runs]_vars

\* The source W1 was saved without markers before the first run; the run
\* has read it for the pair p1 (the source_timestamp is its revision), has
\* written neither target and is at the next pair.
C15Witness ==
  /\ static = StaticConfig("fanout", "disabled")
  /\ wiki["W1"].content = NoMarkerText
  /\ runs = 1 /\ pc = "sync_all" /\ item = 2
  /\ Stamp(dynamic_config_active, "sync", "p1") = wiki["W1"].rev
  /\ wiki["W2"].rev = 1 /\ wiki["W3"].rev = 1

\* sync_one is at an enabled pair with an enabled source and no targets.
AtPairWithoutTargets ==
  /\ pc = "sync_one"
  /\ sync_pair["enabled"] /\ SourceConfig(sync_pair)["enabled"]
  /\ sync_pair["targets"] = <<>>

\* C16: an enabled sync pair with an enabled source and zero targets raises
\* the configuration error at once, with no call to the platform pending
\* before it: the step ends the whole run, writes
\* nothing to the platform, and leaves the dynamic config file, and so every
\* persisted source_timestamp, as it was.
C16ZeroTargetsFailFast ==
  [][AtPairWithoutTargets =>
       /\ pc' = "idle" /\ item' = 0
       /\ world' = world /\ edit_calls' = edit_calls
       /\ file' = file /\ write_calls' = write_calls
       /\ dynamic_config_active' = EmptyDict
       /\ ~ExternalCallPending]_vars

\* The first run of the "zero" configuration has ended without reaching its
\* end and without a failing call: the pair p2 without targets raised, after
\* p1 had been synced, and the file has no source_timestamp for either.
C16Witness ==
  /\ static = StaticConfig("zero", "disabled")
  /\ pc = "idle" /\ runs = 1 /\ failures = 0 /\ ~quiet
  /\ ticks = 0 /\ user_edits = 0
  /\ wiki["W2"].rev = 2
  /\ Stamp(file.doc, "sync", "p1") = 0 /\ Stamp(file.doc, "sync", "p2") = 0

\* The step returns from the item to the loop over the items, with nothing
\* read or written on the platform, no record changed and nothing raised.
ItemPassedOver ==
  /\ world' = world /\ edit_calls' = edit_calls
  /\ dynamic_config_active' = dynamic_config_active
  /\ file' = file /\ write_calls' = write_calls
  /\ pc' = (IF section = "sync" THEN "sync_all" ELSE "manage_threads")
  /\ item' = item + 1 /\ runs' = runs /\ failures' = failures

\* sync_one is at a pair that is disabled or whose source is disabled.
AtDisabledPair ==
  /\ pc = "sync_one"
  /\ ~(/\ sync_pair["enabled"]
        /\ Merge(EndpointDefaults(sync_pair), sync_pair["source"])["enabled"])

\* manage_thread is at a disabled megathread.
AtDisabledMegathread == pc = "manage_thread" /\ ~thread_config["enabled"]

\* The loop over the targets is at a disabled target.
AtDisabledTarget ==
  /\ pc = "sync_targets" /\ target_i \in 1..Len(sync_pair["targets"])
  /\ ~Merge(EndpointDefaults(sync_pair), sync_pair["targets"][target_i])["enabled"]

\* C17: disabled items are no-ops.  The step of sync_one at a pair that is
\* disabled or has a disabled source (with or without targets), and the step
\* of manage_thread at a disabled megathread, read and write nothing on the
\* platform, change no dynamic record, raise nothing and return to the loop
\* over the items; the step of the target loop at a disabled target writes
\* nothing and goes on with the next target.
C17DisabledNoOp ==
  [][/\ (AtDisabledPair \/ AtDisabledMegathread) =>
          (ItemPassedOver /\ ~ExternalCallPending)
     /\ AtDisabledTarget =>
          (/\ world' = world /\ edit_calls' = edit_calls
           /\ dynamic_config_active' = dynamic_config_active /\ file' = file
           /\ pc' = "sync_targets" /\ target_i' = target_i + 1
           /\ failures' = failures)]_vars

\* The first run of the "isolate" configuration has passed the pair p1, whose
\* disabled target W3 was not written while W2 and W4 were, the disabled pair
\* p2 without targets, and the disabled megathread m1, with no record of p2
\* or m1 changed.
C17Witness ==
  /\ static = StaticConfig("isolate", "disabled")
  /\ runs = 1 /\ failures = 0 /\ pc = "manage_threads" /\ item = 2
  /\ wiki["W2"].rev = 2 /\ wiki["W3"].rev = 1 /\ wiki["W4"].rev = 2
  /\ Stamp(dynamic_config_active, "sync", "p2") = 0
  /\ dynamic_config_active["megathread"] = dynamic_config["megathread"]
  /\ DOMAIN threads = {"b"}

\* sync_one is about to read a source that has no revision date.
AtUndatedSource == AtSource /\ ~HasRevisionDate(SourceConfig(sync_pair))

\* C18: a source without a revision date (a menu, a widget) is always
\* stale.  On every run, whatever the stored source_timestamp, sync_one
\* raises nothing, leaves the source_timestamp as it is, and goes on to the
\* target stage, unless the source is a text in which its markers are not
\* found: then it returns to the loop over the items, with nothing written.
C18UndatedAlwaysStale ==
  [][(AtUndatedSource /\ ~CallFails) =>
       /\ dynamic_config_active' = dynamic_config_active
       /\ runs' = runs /\ world' = world /\ edit_calls' = edit_calls
       /\ IF SourceUnmatched
          THEN pc' = "sync_all" /\ item' = item + 1
          ELSE pc' = "sync_targets" /\ target_i' = 1
                 /\ source_content'.kind # "False"]_vars

\* C18 (as stated): for a source without a revision date sync_one goes on to
\* the target stage on every run.
C18AsStated ==
  [][(AtUndatedSource /\ ~CallFails) =>
       /\ dynamic_config_active' = dynamic_config_active
       /\ pc' = "sync_targets"]_vars

\* The second run is at the target stage of the pair whose source is the
\* menu, with nothing changed on the source since the first run and the
\* source_timestamp still 0.
C18Witness ==
  /\ static = StaticConfig("menu", "disabled")
  /\ runs = 2 /\ ticks = 0 /\ user_edits = 0 /\ failures = 0
  /\ pc = "sync_targets" /\ config_id = "p1" /\ target_i = 1
  /\ source_content = MenuContent(menu)
  /\ Stamp(dynamic_config_active, "sync", "p1") = 0
  /\ wiki["W2"].rev = 2

(***************************************************************************)
(* render_dynamic_config on its own: the start of a run (lines 1032-1035)  *)
(* with a dynamic config file that may hold, for each section, no record,  *)
(* a partial or a full record of an item of the static config, and records *)
(* of ids the static config no longer has.                                 *)
(***************************************************************************)
StoredMegathreads ==
  LET partial == [thread_number |-> 3]
      full == [thread_number |-> 3, thread_id |-> "t3", source_timestamp |-> 7]
      old == [thread_number |-> 9, thread_id |-> "z", source_timestamp |-> 2]
  IN {EmptyDict, [m1 |-> partial], [m1 |-> full], [old |-> old],
      [m1 |-> partial, old |-> old]}

StoredPairs ==
  {EmptyDict, [p1 |-> [source_timestamp |-> 4]], [gone |-> [source_timestamp |-> 6]],
   [p1 |-> [source_timestamp |-> 4], gone |-> [source_timestamp |-> 6]]}

\* The documents of the file: both sections, or only the megathread section.
StoredDocs ==
  {[megathread |-> m, sync |-> p] : m \in StoredMegathreads, p \in StoredPairs}
    \cup {[megathread |-> m] : m \in StoredMegathreads}

RenderConfigs ==
  {StaticConfig("fanout", "seeded"), StaticConfig("fanout", "top"),
   StaticConfig("chain", "disabled")}

InitRender ==
  /\ static \in RenderConfigs
  /\ now = Ordinal([year |-> 2023, month |-> 1, day |-> 31])
  /\ InitWorld
  /\ file \in {[exists |-> TRUE, doc |-> d] : d \in StoredDocs}
               \cup {[exists |-> FALSE, doc |-> EmptyDict]}
  /\ dynamic_config = EmptyDict /\ dynamic_config_active = EmptyDict
  /\ pc = "idle"
  /\ NoLocals
  /\ runs = 0 /\ ticks = 0 /\ user_edits = 0 /\ failures = 0
  /\ edit_calls = 0 /\ write_calls = 0
  /\ quiet = FALSE

NextRender == RunStart

SpecRender == InitRender /\ [][NextRender]_vars

\* The items of a section of the static config.
StaticItems(sec) ==
  IF sec = "megathread" THEN static["megathread"]["megathreads"]
  ELSE static["sync"]["pairs"]

\* The records of a section in the dynamic config file.
StoredSection(sec) ==
  IF file.exists /\ sec \in DOMAIN file.doc THEN file.doc[sec] ELSE EmptyDict

\* The value the record of id is to have for key k: the stored value, else
\* the initial value of the item, else the schema default.
ExpectedValue(sec, id, k) ==
  IF id \in DOMAIN StoredSection(sec) /\ k \in DOMAIN StoredSection(sec)[id]
  THEN StoredSection(sec)[id][k]
  ELSE IF "initial" \in DOMAIN StaticItems(sec)[id]
          /\ k \in DOMAIN StaticItems(sec)[id]["initial"]
  THEN StaticItems(sec)[id]["initial"][k]
  ELSE DynamicDefaults(sec)[k]

\* C19: after render_dynamic_config at the start of a run, every sync pair
\* id and megathread id of the static config has a dynamic record with every
\* schema-default key, each key with the stored value if there is one, else
\* the item's initial value, else the schema default; and the stored records
\* of ids that the static config does not have are there unchanged.
C19RenderedRecords ==
  [][(pc = "idle" /\ pc' = "sync_all") =>
       \A sec \in {"sync", "megathread"} :
         /\ sec \in DOMAIN dynamic_config_active'
         /\ \A id \in DOMAIN StaticItems(sec) :
              /\ id \in DOMAIN dynamic_config_active'[sec]
              /\ \A k \in DOMAIN DynamicDefaults(sec) :
                   /\ k \in DOMAIN dynamic_config_active'[sec][id]
                   /\ dynamic_config_active'[sec][id][k] = ExpectedValue(sec, id, k)
         /\ \A id \in (DOMAIN StoredSection(sec)) \ (DOMAIN StaticItems(sec)) :
              /\ id \in DOMAIN dynamic_config_active'[sec]
              /\ dynamic_config_active'[sec][id] = StoredSection(sec)[id]]_vars

\* The run has started on a file with a partial record of m1 (a stored
\* thread_number), an initial block that names thread_number and thread_id,
\* and the records of the ids old and gone: the record of m1 has the stored
\* number, the initial id and the default timestamp, and both old records
\* are there.
C19Witness ==
  /\ pc = "sync_all" /\ runs = 1
  /\ static = StaticConfig("fanout", "seeded")
  /\ file.exists /\ DOMAIN file.doc = {"megathread", "sync"}
  /\ file.doc["megathread"] =
       [m1 |-> [thread_number |-> 3],
        old |-> [thread_number |-> 9, thread_id |-> "z", source_timestamp |-> 2]]
  /\ dynamic_config_active["megathread"]["m1"] =
       [thread_number |-> 3, thread_id |-> "b", source_timestamp |-> 0]
  /\ dynamic_config_active["megathread"]["old"] = file.doc["megathread"]["old"]
  /\ "gone" \in DOMAIN dynamic_config_active["sync"]

\* The static config lacks a nested key: a section without defaults or
\* enabled, or a megathread without a target.
MissingNestedKey ==
  \/ \E sec \in {"sync", "megathread"} :
       {"defaults", "enabled"} \ (DOMAIN static[sec]) # {}
  \/ \E id \in MegaIds : "target" \notin DOMAIN static["megathread"]["megathreads"][id]

\* C20 (as stated): a missing nested key never raises.  In a run under a
\* static config whose sync or megathread section lacks defaults or enabled,
\* or with a megathread without a target, no step in which no external call
\* fails ends the run before its end.
C20MissingKeysTolerated ==
  [][(MissingNestedKey /\ pc \notin {"idle", "finish"} /\ ~CallFails)
       => pc' # "idle"]_vars

\* The run is inside create_new_thread.
InCreateNewThread == pc \in CntPcs /\ section = "megathread"

\* C21: rotation ordering.  create_new_thread is entered with nothing done
\* on the platform and changes the counters first, in a step that calls
\* nothing: source_timestamp becomes 0, thread_number one more, thread_id
\* stays.  thread_id changes in no other step than the last, after the
\* publishing, the pinning, the link pages and the redirect, and becomes the
\* id of the published thread; up to then, and so whenever a step fails, the
\* record names the thread the run started with.
C21RotationOrdering ==
  [][/\ (pc = "manage_thread" /\ pc' = "cnt_counters") => world' = world
     /\ (pc = "cnt_counters" /\ ~CallFails) =>
          /\ world' = world /\ edit_calls' = edit_calls
          /\ ~ExternalCallPending
          /\ Stamp(dynamic_config_active', "megathread", config_id) = 0
          /\ ThreadNumber(dynamic_config_active', config_id)
               = ThreadNumber(dynamic_config_active, config_id) + 1
          /\ ThreadId(dynamic_config_active', config_id)
               = ThreadId(dynamic_config_active, config_id)
     /\ InCreateNewThread =>
          /\ ThreadId(dynamic_config_active, config_id)
               = ThreadId(dynamic_config, config_id)
          /\ (pc # "cnt_counters") =>
               ThreadNumber(dynamic_config_active, config_id)
                 = ThreadNumber(dynamic_config, config_id) + 1
     /\ (InCreateNewThread /\ pc' # "idle"
           /\ ThreadId(dynamic_config_active', config_id)
                # ThreadId(dynamic_config_active, config_id)) =>
          /\ pc = "cnt_links" /\ pc' = "manage_threads"
          /\ ThreadId(dynamic_config_active', config_id) = new_thread
          /\ new_thread \in DOMAIN threads
          /\ threads[new_thread].approved]_vars

\* The second rotation of m1 is at its last step: the thread t2 is published
\* and counted, and the record still names t1.
C21Witness ==
  /\ pc = "cnt_links" /\ config_id = "m1"
  /\ new_thread = "t2" /\ "t2" \in DOMAIN threads
  /\ Record["thread_id"] = "t1" /\ Record["thread_number"] = 2
  /\ Record["source_timestamp"] > 0

\* The source of the megathread at hand holds its region.
ThreadSourceMatched ==
  LET source_config == ThreadSourceConfig(thread_config)
      content == EndpointContent(source_config)
  IN /\ EndpointExists(source_config)
     /\ content.kind = "str"
     /\ ExtractText(content.text, source_config) # FalseStr

\* The processed region of the source of the megathread at hand.
ThreadSourceRegion ==
  LET source_config == ThreadSourceConfig(thread_config)
  IN replace_patterns(ExtractText(EndpointContent(source_config).text, source_config),
                      source_config["replace_patterns"])

\* C22: on every rotation from a source that holds its region, whatever the
\* source_timestamp stored before the rotation and whatever the revision of
\* the source, create_new_thread fetches the content, and the body of the
\* thread it publishes is the region of the source with the source's
\* replace_patterns applied.
C22RotationFetchesSource ==
  [][/\ (pc = "cnt_source" /\ "target" \in DOMAIN thread_config
           /\ ThreadSourceMatched /\ ~CallFails) =>
          /\ pc' = "cnt_submit"
          /\ source_content' = StrContent(ThreadSourceRegion)
     /\ (pc = "cnt_submit" /\ ThreadSourceMatched /\ ~CallFails) =>
          /\ pc' = "cnt_unpin"
          /\ new_thread' \in (DOMAIN threads') \ (DOMAIN threads)
          /\ threads'[new_thread'].selftext = ThreadSourceRegion]_vars

\* The second rotation has published t2 with the region of W1 as its body,
\* although the run started with the source_timestamp at the revision of W1.
C22Witness ==
  /\ pc = "cnt_unpin" /\ config_id = "m1"
  /\ new_thread = "t2" /\ threads["t2"].selftext = <<"x">>
  /\ Stamp(dynamic_config, "megathread", "m1") = wiki["W1"].rev

\* manage_thread is at an enabled megathread that declares a target, has a
\* live thread and is not due for a rotation.
SyncingLiveThread ==
  /\ pc = "manage_thread"
  /\ thread_config["enabled"] /\ "target" \in DOMAIN thread_config
  /\ Record["thread_id"] # ""
  /\ ManageThreadDecision(thread_config, Record, threads, now) = "False"

\* The run is in the sync_one that manage_thread called.
InThreadSync == section = "megathread" /\ pc \in {"sync_one", "sync_targets"}

\* The source of the megathread at hand is newer than the record said when
\* the run started, or has no revision date.
ThreadSourceNewer ==
  LET source_config == SourceConfig(sync_pair)
  IN HasRevisionDate(source_config) =>
       RevisionDate(source_config) > Stamp(dynamic_config, "megathread", config_id)

\* C23: a megathread with a live thread and no rotation due is synced as a
\* pair.  manage_thread hands to sync_one the pair made of the megathread's
\* source and one target, the thread endpoint named by thread_id, with the
\* megathread's own record; in that sync no thread is published, no pin
\* changes, thread_id and thread_number stay, nothing but the text of the
\* live thread is written, and it is written only if the source's revision
\* is greater than the stored source_timestamp or the source has none.
C23LiveThreadSync ==
  [][/\ (SyncingLiveThread /\ ~CallFails) =>
          /\ pc' = "sync_one" /\ world' = world
          /\ dynamic_config_active' = dynamic_config_active
          /\ section' = "megathread" /\ config_id' = config_id
          /\ sync_pair'["source"] = thread_config["source"]
          /\ sync_pair'["defaults"] = thread_config["defaults"]
          /\ Len(sync_pair'["targets"]) = 1
          /\ TargetConfig(sync_pair', 1)["endpoint_type"] = "THREAD"
          /\ TargetConfig(sync_pair', 1)["endpoint_name"] = Record["thread_id"]
     /\ InThreadSync =>
          /\ DOMAIN threads' = DOMAIN threads
          /\ stickies' = stickies /\ wiki' = wiki /\ menu' = menu
          /\ (pc' # "idle") =>
               ThreadFields(dynamic_config_active', config_id)
                 = ThreadFields(dynamic_config_active, config_id)
          /\ (threads' # threads) =>
               /\ pc = "sync_targets" /\ ThreadSourceNewer
               /\ \A id \in DOMAIN threads :
                    (id # Record["thread_id"]) => threads'[id] = threads[id]
               /\ threads'[Record["thread_id"]].selftext = source_content.text]_vars

\* The source W1 was saved with a new region after the first thread t1 was
\* published; the next run, with no rotation due, has written the region to
\* t1, and m1 still has thread t1 and number 1.
C23Witness ==
  /\ InThreadSync /\ pc = "sync_targets" /\ target_i = 2
  /\ config_id = "m1" /\ runs = 2
  /\ Record["thread_id"] = "t1" /\ Record["thread_number"] = 1
  /\ threads["t1"].selftext = <<"y">>
  /\ DOMAIN threads = {"b", "t1"}

(***************************************************************************)
(* The extraction of the region on its own: the source stage of sync_one   *)
(* (lines 966-971) for the pair p1 of the "fanout" configuration, whose    *)
(* source page W1 is new and holds a start marker, a region, an end        *)
(* marker and a tail that may hold further markers, or no pair of markers. *)
(***************************************************************************)
StartMarker == MdMarker(<<"P", "s">>)

EndMarker == MdMarker(<<"P", "e">>)

\* What follows the first end marker.
Tails ==
  {<<>>, <<"b">>, EndMarker, <<"b">> \o EndMarker,
   <<"b">> \o StartMarker \o <<"z">> \o EndMarker}

\* Pages in which no end marker follows a start marker.
UnmatchedPages ==
  {NoMarkerText, StartMarker \o <<"o">>, <<"o">> \o EndMarker,
   EndMarker \o <<"o">> \o StartMarker}

ExtractPages ==
  {prefix \o StartMarker \o x \o EndMarker \o tail :
     prefix \in Prefixes, x \in RegionTexts, tail \in Tails}
    \cup UnmatchedPages

InitExtract ==
  /\ static = StaticConfig("fanout", "disabled")
  /\ now = Ordinal([year |-> 2023, month |-> 1, day |-> 31])
  /\ \E page \in ExtractPages :
       wiki = [W1 |-> [content |-> page, rev |-> 1],
               W2 |-> [content |-> TargetText, rev |-> 1],
               W3 |-> [content |-> TargetText, rev |-> 1],
               L |-> [content |-> LinkPageText, rev |-> 1]]
  /\ menu = <<"m">>
  /\ threads = [b |-> [number |-> 0, selftext |-> <<"o">>, created |-> 0, edited |-> 0,
                       approved |-> TRUE, redirected |-> FALSE]]
  /\ stickies = <<"b">> /\ sticky_cache = stickies
  /\ dynamic_config = render_dynamic_config(static, EmptyDict)
  /\ dynamic_config_active = dynamic_config
  /\ file = [exists |-> TRUE, doc |-> dynamic_config]
  /\ pc = "sync_one"
  /\ item = 1 /\ section = "sync" /\ config_id = "p1"
  /\ thread_config = EmptyDict
  /\ sync_pair = ResolveSyncPair(static, "p1")
  /\ source_content = FalseContent
  /\ target_i = 0
  /\ new_thread = "" /\ sticky_to_keep = ""
  /\ runs = 1 /\ ticks = 0 /\ user_edits = 0 /\ failures = 0
  /\ edit_calls = 0 /\ write_calls = 1
  /\ quiet = FALSE

NextExtract == sync_one

SpecExtract == InitExtract /\ [][NextExtract]_vars

\* The positions of s at which t starts.
Occurrences(t, s) == {i \in 1..(Len(s) + 1) : StartsAt(s, i, t)}

Least(S) == CHOOSE i \in S : \A k \in S : i <= k

\* The positions right after a start marker that an end marker follows.
RegionStarts(s, start, end) ==
  {i + Len(start) : i \in Occurrences(start, s)}
    \cap {i \in 1..(Len(s) + 1) : \E j \in Occurrences(end, s) : j >= i}

\* The text between the first start marker and the first end marker after it.
NonGreedyRegion(s, start, end) ==
  LET lo == Least(RegionStarts(s, start, end))
      hi == Least({j \in Occurrences(end, s) : j >= lo})
  IN SubSeq(s, lo, hi - 1)

\* The content and the markers of the source that sync_one is about to read.
SourcePage == EndpointContent(SourceConfig(sync_pair)).text

SourceStart ==
  MdMarker(SourceConfig(sync_pair)["pattern"] \o SourceConfig(sync_pair)["pattern_start"])

SourceEnd ==
  MdMarker(SourceConfig(sync_pair)["pattern"] \o SourceConfig(sync_pair)["pattern_end"])

\* C24 (as stated): the extracted region is the text between the first start
\* marker and the first end marker after it, and a content without the
\* markers gives the no-match value: sync_one passes that text on to the
\* targets, and returns at once when there is no match.
C24NonGreedyRegion ==
  [][(pc = "sync_one" /\ AtSource /\ ~CallFails) =>
       IF RegionStarts(SourcePage, SourceStart, SourceEnd) = {}
       THEN pc' = "sync_all"
       ELSE /\ pc' = "sync_targets"
            /\ source_content' =
                 StrContent(NonGreedyRegion(SourcePage, SourceStart, SourceEnd))]_vars

\* The part of C24 about a content without the markers: it holds, also for
\* a region that is empty (the empty text is passed on, not taken as no match).
C24NoMatch ==
  [][(pc = "sync_one" /\ AtSource /\ ~CallFails) =>
       IF RegionStarts(SourcePage, SourceStart, SourceEnd) = {}
       THEN pc' = "sync_all" /\ world' = world
       ELSE pc' = "sync_targets" /\ source_content'.kind = "str"]_vars

\* The content of the page of target target_i with the span of its region
\* replaced by the source text, and nothing else changed.
RegionReplaced ==
  LET target_config == TargetConfig(sync_pair, target_i)
      content == wiki[target_config["endpoint_name"]].content
      match_obj == search_startend(content, target_config["pattern"],
                                   target_config["pattern_start"],
                                   target_config["pattern_end"])
  IN SubSeq(content, 1, match_obj.span[1] - 1)
       \o source_content.text
       \o SubSeq(content, match_obj.span[2] + 1, Len(content))

\* C25 (as stated): replacement substitutes the region only.  What is written
\* to a target is its content with the region between the markers replaced
\* by the source text, the markers and everything outside them unchanged,
\* also when the text of the region occurs elsewhere in the content or is
\* empty.
C25RegionOnlyReplaced ==
  [][(TargetWithRegion /\ source_content.kind = "str") =>
       LET name == TargetConfig(sync_pair, target_i)["endpoint_name"]
       IN wiki'[name].content = RegionReplaced]_vars

\* C25 for a region that is not empty and does not occur a second time in
\* the content: it holds.
C25SingleOccurrence ==
  [][(/\ TargetWithRegion /\ source_content.kind = "str"
      /\ RegionBefore # <<>>
      /\ LET name == TargetConfig(sync_pair, target_i)["endpoint_name"]
         IN Cardinality(Occurrences(RegionBefore, wiki[name].content)) = 1) =>
       LET name == TargetConfig(sync_pair, target_i)["endpoint_name"]
       IN wiki'[name].content = RegionReplaced]_vars

(***************************************************************************)
(* replace_patterns on its own: sync_one (lines 950-989) for a pair with   *)
(* source W1, whose region is x, and targets W2 and W3, each of the three  *)
(* endpoints with one of PatternMaps as its replace_patterns.              *)
(***************************************************************************)
PatternMaps ==
  {<<>>,
   << <<(<<"x">>), (<<"a">>)>> >>,
   << <<(<<"x">>), (<<"a">>)>>, <<(<<"a">>), (<<"c">>)>> >>,
   << <<(<<"a">>), (<<"c">>)>>, <<(<<"x">>), (<<"a">>)>> >>,
   << <<(<<"x">>), (<<"x", "x">>)>>, <<(<<"x">>), (<<"d">>)>> >>}

PatternPair(source_patterns, first_patterns, second_patterns) ==
  [ResolveSyncPair(StaticConfig("fanout", "disabled"), "p1") EXCEPT
     !["source"] = Merge(@, [replace_patterns |-> source_patterns]),
     !["targets"] = <<Merge(@[1], [replace_patterns |-> first_patterns]),
                      Merge(@[2], [replace_patterns |-> second_patterns])>>]

InitPatterns ==
  /\ static = StaticConfig("fanout", "disabled")
  /\ now = Ordinal([year |-> 2023, month |-> 1, day |-> 31])
  /\ InitWorld
  /\ dynamic_config = render_dynamic_config(static, EmptyDict)
  /\ dynamic_config_active = dynamic_config
  /\ file = [exists |-> TRUE, doc |-> dynamic_config]
  /\ pc = "sync_one"
  /\ item = 1 /\ section = "sync" /\ config_id = "p1"
  /\ thread_config = EmptyDict
  /\ \E sp \in PatternMaps, tp1 \in PatternMaps, tp2 \in PatternMaps :
       sync_pair = PatternPair(sp, tp1, tp2)
  /\ source_content = FalseContent
  /\ target_i = 0
  /\ new_thread = "" /\ sticky_to_keep = ""
  /\ runs = 1 /\ ticks = 0 /\ user_edits = 0 /\ failures = 0
  /\ edit_calls = 0 /\ write_calls = 1
  /\ quiet = FALSE

NextPatterns == sync_one \/ sync_targets

SpecPatterns == InitPatterns /\ [][NextPatterns]_vars

\* C26: replace_patterns is a fold over the mapping in mapping order, each
\* entry replacing every occurrence in the output of the entry before
\* ({a->b, b->c} turns "a" into "c", the other order into "b").  The source's
\* patterns are applied once, to the extracted region, before any target;
\* the text so processed stays as it is through the loop over the targets,
\* and what is written into the region of each target is that text with the
\* target's own patterns applied, whatever the patterns of the other targets.
C26ReplacePatterns ==
  [][/\ replace_patterns(<<"a">>, << <<(<<"a">>), (<<"b">>)>>, <<(<<"b">>), (<<"c">>)>> >>)
          = <<"c">>
     /\ replace_patterns(<<"a", "a">>,
                         << <<(<<"b">>), (<<"c">>)>>, <<(<<"a">>), (<<"b">>)>> >>)
          = <<"b", "b">>
     /\ (AtSource /\ ~SourceUnmatched /\ ~CallFails) =>
          /\ pc' = "sync_targets"
          /\ source_content' =
               StrContent(replace_patterns(
                 ExtractText(SourcePage, SourceConfig(sync_pair)),
                 SourceConfig(sync_pair)["replace_patterns"]))
     /\ (AtTarget /\ ~CallFails) => source_content' = source_content
     /\ (TargetWithRegion /\ source_content.kind = "str" /\ ~CallFails) =>
          RegionAfter = replace_patterns(
                          source_content.text,
                          TargetConfig(sync_pair, target_i)["replace_patterns"])]_vars

\* The loop over the targets is over for a source with the patterns x->a,
\* a->c and targets with a->c, x->a and none: the processed text is c, and
\* it was written as it is to both targets.
C26Witness ==
  /\ pc = "sync_targets" /\ target_i = 3
  /\ SourceConfig(sync_pair)["replace_patterns"]
       = << <<(<<"x">>), (<<"a">>)>>, <<(<<"a">>), (<<"c">>)>> >>
  /\ TargetConfig(sync_pair, 1)["replace_patterns"]
       = << <<(<<"a">>), (<<"c">>)>>, <<(<<"x">>), (<<"a">>)>> >>
  /\ TargetConfig(sync_pair, 2)["replace_patterns"] = <<>>
  /\ source_content = StrContent(<<"c">>)
  /\ ExtractText(wiki["W2"].content, TargetConfig(sync_pair, 1)) = <<"c">>
  /\ ExtractText(wiki["W3"].content, TargetConfig(sync_pair, 2)) = <<"c">>

\* sync_one is at an enabled target whose endpoint exists, the content of
\* the source being menu data.
AtTargetOfMenuSource ==
  /\ AtTarget /\ source_content.kind = "menu"
  /\ TargetConfig(sync_pair, target_i)["enabled"]
  /\ EndpointExists(TargetConfig(sync_pair, target_i))

\* C27: what sync_one writes to an enabled target is derived from the
\* content of the source, never the target's own content written back: for a
\* source whose content is menu data, it is the menu data of the source.
C27SourceDerived ==
  [][(AtTargetOfMenuSource /\ ~CallFails) =>
       LET name == TargetConfig(sync_pair, target_i)["endpoint_name"]
       IN /\ wiki'[name].content = source_content.text
          /\ wiki'[name].content # wiki[name].content]_vars

\* For a text source and a wiki page target that holds its markers, the text
\* written is the processed text of the source put in place of the region.
C27TextSource ==
  [][(TargetWithRegion /\ source_content.kind = "str" /\ ~CallFails) =>
       LET target_config == TargetConfig(sync_pair, target_i)
           name == target_config["endpoint_name"]
       IN wiki'[name].content =
            ReplaceText(wiki[name].content, target_config,
                        replace_patterns(source_content.text,
                                         target_config["replace_patterns"]))]_vars

\* sync_one is at the source of a sync pair, a source with a revision date.
AtDatedPairSource ==
  /\ AtSource /\ section = "sync"
  /\ HasRevisionDate(SourceConfig(sync_pair))

\* C28: the source_timestamp is advanced before the content is processed.
\* When the source of a pair has a revision newer than the recorded one and
\* its markers are not found, the step leaves the pair with no target
\* written and the source_timestamp of its record at that revision; the end
\* of the run saves every source_timestamp the run has changed; and a run that
\* finds the saved source_timestamp at the revision of the source, or the
\* record of the run not below it, passes over the pair, so that no target is
\* written until the revision of the source goes up.
C28WatermarkFirst ==
  [][/\ (/\ AtDatedPairSource /\ SourceUnmatched /\ ~CallFails
         /\ RevisionDate(SourceConfig(sync_pair)) > Record["source_timestamp"]) =>
          /\ Stamp(dynamic_config_active', "sync", config_id)
               = RevisionDate(SourceConfig(sync_pair))
          /\ world' = world /\ edit_calls' = edit_calls
          /\ pc' = "sync_all" /\ item' = item + 1
     /\ (pc = "finish" /\ ~CallFails) =>
          \A id \in DOMAIN dynamic_config_active["sync"] :
            Stamp(dynamic_config_active, "sync", id) # Stamp(dynamic_config, "sync", id)
              => /\ file'.exists
                 /\ Stamp(file'.doc, "sync", id) = Stamp(dynamic_config_active, "sync", id)
     /\ (/\ AtDatedPairSource /\ ~CallFails
         /\ \/ RevisionDate(SourceConfig(sync_pair)) <= Record["source_timestamp"]
            \/ /\ file.exists /\ "sync" \in DOMAIN file.doc
               /\ config_id \in DOMAIN file.doc["sync"]
               /\ Stamp(file.doc, "sync", config_id)
                    = RevisionDate(SourceConfig(sync_pair))) =>
          ItemPassedOver]_vars

\* W1 was saved without its markers before the first run, which recorded its
\* revision for the pair p1 and saved it; the second run has passed over the
\* pair: no target has been written.
C28Witness ==
  /\ static = StaticConfig("fanout", "disabled")
  /\ wiki["W1"].content = NoMarkerText /\ wiki["W1"].rev = 2
  /\ runs = 2 /\ failures = 0 /\ pc = "sync_all" /\ item = 2
  /\ Stamp(file.doc, "sync", "p1") = 2
  /\ Stamp(dynamic_config_active, "sync", "p1") = 2
  /\ wiki["W2"].rev = 1 /\ wiki["W3"].rev = 1

\* create_new_thread is at the link pages, with a previous thread.
AtLinkPages == pc = "cnt_links" /\ Record["thread_id"] # ""

\* The text of a link page with every link to the thread old_id, in
\* whatever case, replaced by the link to new_id, and nothing else changed.
LinksRewritten(content, old_id, new_id) ==
  [i \in 1..Len(content) |->
     IF /\ i > 1 /\ content[i] = old_id
        /\ Lower(content[i - 1]) \in {"p", "s"}
     THEN new_id
     ELSE IF /\ i < Len(content) /\ content[i + 1] = old_id
             /\ Lower(content[i]) \in {"p", "s"}
     THEN Lower(content[i])
     ELSE content[i]]

\* C29: on a rotation with a previous thread, every page of
\* link_update_pages is rewritten with each permalink and shortlink of the
\* previous thread, matched without regard to case, replaced by that of the
\* new thread and the rest of its text unchanged; without a previous thread
\* no link page is read or written.
C29LinkRewrite ==
  [][/\ (AtLinkPages /\ ~CallFails) =>
          \A i \in 1..Len(thread_config["link_update_pages"]) :
            LET page == thread_config["link_update_pages"][i]
            IN wiki'[page].content
                 = LinksRewritten(wiki[page].content, Record["thread_id"], new_thread)
     /\ (pc = "cnt_links" /\ Record["thread_id"] = "" /\ ~CallFails) => wiki' = wiki]_vars

\* The same for the first page of link_update_pages alone.
C29FirstPage ==
  [][/\ (AtLinkPages /\ ~CallFails /\ thread_config["link_update_pages"] # <<>>) =>
          LET page == thread_config["link_update_pages"][1]
          IN /\ wiki'[page].content
                  = LinksRewritten(wiki[page].content, Record["thread_id"], new_thread)
             /\ wiki'[page].content # wiki[page].content
     /\ (pc = "cnt_links" /\ Record["thread_id"] = "" /\ ~CallFails) => wiki' = wiki]_vars

\* A step of sync_one or manage_thread, for the item config_id of section,
\* that leaves the run going.
ItemStep ==
  /\ pc \notin {"idle", "sync_all", "manage_threads", "finish"}
  /\ pc' # "idle"

\* C30: processing one item touches only the item's own record.  A step of
\* sync_one for a pair changes at most the source_timestamp of the sync
\* record of the pair, a step of manage_thread for a megathread changes only
\* the megathread record of that megathread; every other record, the record
\* under the same id in the other section among them, stays as it is.
C30OwnRecordOnly ==
  [][ItemStep =>
       /\ DOMAIN dynamic_config_active' = DOMAIN dynamic_config_active
       /\ \A s \in DOMAIN dynamic_config_active :
            /\ DOMAIN dynamic_config_active'[s] = DOMAIN dynamic_config_active[s]
            /\ \A id \in DOMAIN dynamic_config_active[s] :
                 /\ (s # section \/ id # config_id) =>
                      dynamic_config_active'[s][id] = dynamic_config_active[s][id]
                 /\ s = "sync" =>
                      /\ DOMAIN dynamic_config_active'[s][id] = {"source_timestamp"}
                      /\ DOMAIN dynamic_config_active[s][id] = {"source_timestamp"}]_vars

\* The pair m1 and the megathread m1: the run has recorded the revision of
\* the source in the sync record and has made the first thread, which only
\* the megathread record names; the megathread record has its own
\* source_timestamp.
C30Witness ==
  /\ static = StaticConfig("shared", "top")
  /\ runs = 1 /\ pc = "finish"
  /\ dynamic_config_active["sync"]["m1"] = [source_timestamp |-> 2]
  /\ dynamic_config_active["megathread"]["m1"]["thread_id"] = "t1"
  /\ dynamic_config_active["megathread"]["m1"]["thread_number"] = 1
  /\ dynamic_config_active["megathread"]["m1"]["source_timestamp"] = 2

\* The threads the program has published: all but b, which was there before.
Published(all_threads) == (DOMAIN all_threads) \ {"b"}

\* The thread_number the megathread m1 starts from: that of its initial
\* block, or the default 0.
InitialNumber ==
  Get(Get(static["megathread"]["megathreads"]["m1"], "initial", EmptyDict),
      "thread_number", 0)

\* The dynamic config file f accounts for the threads all_threads: the
\* threads published are as many as its thread_number of m1 is above the
\* initial one, and its thread_id of m1 names the one published last.
Accounted(f, all_threads) ==
  /\ f.exists /\ "megathread" \in DOMAIN f.doc /\ "m1" \in DOMAIN f.doc["megathread"]
  /\ Cardinality(Published(all_threads)) = ThreadNumber(f.doc, "m1") - InitialNumber
  /\ Published(all_threads) # {} =>
       ThreadId(f.doc, "m1") = ThreadIds[Cardinality(Published(all_threads))]

\* C31: across any sequence of runs, those ended by a failing external call
\* after the new thread was submitted among them, at the end of every run
\* the threads published are as many as the saved thread_number is above
\* its initial value, and the saved thread_id names the thread published
\* last.
C31PublishedAccounted ==
  [][(pc # "idle" /\ pc' = "idle") => Accounted(file', threads')]_vars

\* The same at the end of a run that returns, as long as no external call
\* has failed in this run or in one before it.
C31CompletedRuns ==
  [][(pc = "finish" /\ failures = 0) => Accounted(file', threads')]_vars

====
